---- MODULE Spec2Model ----
(***************************************************************************)
(* Aggregates of the everest project (everest/entities/aggregates.py).     *)
(*                                                                         *)
(* An aggregate holds a relationship, a filter, an order and a slice and   *)
(* reads or changes a collection of entities: the in-memory aggregate a    *)
(* Python list (its own, shared by reference with its clones, or the       *)
(* children list of its relationship), the store-backed aggregate a        *)
(* session.  Every method of the two classes is one action; the value it   *)
(* returns (or the exception it raises) is recorded in ret.                *)
(*                                                                         *)
(* Collections (everest/resources/base.py) keep resource-relative filter   *)
(* and order specifications and hand their aggregate the entity-relative   *)
(* translation made by a resource-to-entity visitor, which is modelled     *)
(* visit by visit.                                                         *)
(***************************************************************************)
EXTENDS Integers, Sequences, FiniteSets, TLC

VARIABLES
    aggs,      \* the aggregates, in order of construction: a sequence of records
    heap,      \* the Python lists bound to MemoryAggregateImpl.__entities
    children,  \* relationship -> the list behind relationship.children
    store,     \* store-backed: the entities persisted by the session
    deleted,   \* store-backed: entities marked by session.delete, not yet flushed
    cfg,       \* what is fixed at start-up: the backend (class of the aggregates)
    made_from, \* history: for each aggregate, the aggregate it was cloned from
    ret,       \* the last call: [op, agg, arg, out]
    colls,     \* the collections (resources/base.py), in order of construction
    visitor,   \* the resource-to-entity visitor at work, if any
    gen        \* the generator returned by iterator() and not yet run to its end

\* The state of the resource layer and of a suspended generator, which no
\* method of an aggregate changes.
rc_vars == <<colls, visitor, gen>>

vars == <<aggs, heap, children, store, deleted, cfg, made_from, ret, colls, visitor, gen>>

-----------------------------------------------------------------------------
(* Bounds of the model. *)

\* Aggregates alive at once (the original and its clones).
MaxAggs == 2
\* Longest list of entities.
MaxLen == 3

-----------------------------------------------------------------------------
(* Values. *)

\* Python's None
None == "None"

\* The entity objects handed to the aggregates.  cls is the class of the
\* object, hasId / hasSlug say whether the attribute exists at all.
EntityTable ==
    [ e1 |-> [cls |-> "Entity", hasId |-> TRUE,  hasSlug |-> TRUE,  id |-> "i1", slug |-> "a",  val |-> 2],
      e2 |-> [cls |-> "Entity", hasId |-> TRUE,  hasSlug |-> TRUE,  id |-> "i2", slug |-> "b",  val |-> 1],
      e3 |-> [cls |-> "Entity", hasId |-> TRUE,  hasSlug |-> TRUE,  id |-> "i2", slug |-> "a",  val |-> 1],
      e4 |-> [cls |-> "Entity", hasId |-> TRUE,  hasSlug |-> TRUE,  id |-> None, slug |-> None, val |-> 3],
      e5 |-> [cls |-> "Entity", hasId |-> TRUE,  hasSlug |-> TRUE,  id |-> None, slug |-> "a",  val |-> 2],
      e6 |-> [cls |-> "Entity", hasId |-> TRUE,  hasSlug |-> TRUE,  id |-> "i1", slug |-> None, val |-> 1],
      e7 |-> [cls |-> "Other",  hasId |-> TRUE,  hasSlug |-> TRUE,  id |-> "i3", slug |-> "c",  val |-> 1],
      e8 |-> [cls |-> "Entity", hasId |-> FALSE, hasSlug |-> TRUE,  id |-> None, slug |-> "c",  val |-> 1],
      e9 |-> [cls |-> "Entity", hasId |-> TRUE,  hasSlug |-> FALSE, id |-> "i3", slug |-> None, val |-> 1] ]

Entities == DOMAIN EntityTable

\* The aggregates' entity_class.
entity_class == "Entity"

IdKeys == {"i1", "i2", None}
SlugKeys == {"a", "b", None}

\* The relationships an aggregate can be scoped by (two parents).
Relationships == {"r1", "r2"}

\* Filter specifications (entity-relative): <<operator, attr_name, attr_value>>.
FilterSpecs == {<<"greater_than", "val", 1>>}
\* Order specifications: <<operator, attr_name>>.
OrderSpecs == {<<"asc", "val">>, <<"desc", "val">>}
\* Slice keys slice(start, stop): <<start, stop>>.  An unset field is <<>>.
SliceKeys == {<<0, 2>>, <<2, 5>>}
Unset == <<>>

Min(a, b) == IF a < b THEN a ELSE b
Max(a, b) == IF a < b THEN b ELSE a
Range(s) == {s[i] : i \in 1..Len(s)}

-----------------------------------------------------------------------------
(* Entities and specifications. *)

\* getattr(ent, attr)
GetAttr(e, attr) ==
    CASE attr = "id" -> EntityTable[e].id
      [] attr = "slug" -> EntityTable[e].slug
      [] attr = "val" -> EntityTable[e].val
      \* every entity of the table has the same parent, whose val is 0
      [] attr = "parent.val" -> 0

\* FilterSpecification.is_satisfied_by(ent)
IsSatisfiedBy(spec, e) ==
    CASE spec[1] = "equal_to" -> GetAttr(e, spec[2]) = spec[3]
      [] spec[1] = "greater_than" -> GetAttr(e, spec[2]) > spec[3]

\* The expression of the EVAL filter visitor, applied to a list: the entities
\* that satisfy the specification, in the order of the list.
EvalFilter(spec, ents) == SelectSeq(ents, LAMBDA e : IsSatisfiedBy(spec, e))

\* cmp of the EVAL order visitor: TRUE when a has to come after b.
ComesAfter(spec, a, b) ==
    IF spec[1] = "asc"
    THEN GetAttr(a, spec[2]) > GetAttr(b, spec[2])
    ELSE GetAttr(a, spec[2]) < GetAttr(b, spec[2])

\* Insertion of e into the sorted list s behind every element it does not
\* have to precede (sorted() is stable).
RECURSIVE InsertSorted(_, _, _)
InsertSorted(spec, s, e) ==
    IF s = <<>> THEN <<e>>
    ELSE IF ComesAfter(spec, s[Len(s)], e)
         THEN Append(InsertSorted(spec, SubSeq(s, 1, Len(s) - 1), e), s[Len(s)])
         ELSE Append(s, e)

\* The expression of the EVAL order visitor, applied to a list: sorted(ents, cmp).
RECURSIVE EvalOrder(_, _)
EvalOrder(spec, ents) ==
    IF ents = <<>> THEN <<>>
    ELSE InsertSorted(spec, EvalOrder(spec, SubSeq(ents, 1, Len(ents) - 1)), ents[Len(ents)])

\* The slice taken with its stop included.
ApplySliceInclusive(ents, key) ==
    [i \in 1..Max(0, Min(key[2] + 1, Len(ents)) - key[1]) |-> ents[key[1] + i]]

\* ents[slice(start, stop)] for start, stop >= 0.
ApplySlice(ents, key) ==
    [i \in 1..Max(0, Min(key[2], Len(ents)) - key[1]) |-> ents[key[1] + i]]

-----------------------------------------------------------------------------
(* MemoryAggregateImpl. *)

\* _get_entities: the list the aggregate reads and changes.
GetEntitiesOf(agg, hp, ch) ==
    IF agg.relationship = None THEN hp[agg.entities] ELSE ch[agg.relationship]

_get_entities(a) == GetEntitiesOf(aggs[a], heap, children)

\* __filter_by_attr without its second condition: the filter is not looked at.
FilterByAttrNoFilter(filter_spec, ents, attr, value) ==
    SelectSeq(ents, LAMBDA e : GetAttr(e, attr) = value)

\* __filter_by_attr
FilterByAttr(filter_spec, ents, attr, value) ==
    IF filter_spec = Unset
    THEN SelectSeq(ents, LAMBDA e : GetAttr(e, attr) = value)
    ELSE SelectSeq(ents, LAMBDA e : GetAttr(e, attr) = value /\ IsSatisfiedBy(filter_spec, e))

\* get_by_id / get_by_slug: the entity, None, or the exception raised.
Lookup(filter_spec, ents, attr, value) ==
    LET matching_ents == FilterByAttr(filter_spec, ents, attr, value)
    IN  IF Len(matching_ents) = 1 THEN matching_ents[1]
        ELSE IF Len(matching_ents) = 0 THEN None
        ELSE "DuplicateException"

get_by_id(a, id_key) == Lookup(aggs[a].filter, _get_entities(a), "id", id_key)
get_by_slug(a, slug) == Lookup(aggs[a].filter, _get_entities(a), "slug", slug)

\* iterator with the slice taken before the list is sorted.
IterateSliceFirst(filter_spec, order_spec, slice_key, ents) ==
    LET filtered == IF filter_spec # Unset THEN EvalFilter(filter_spec, ents) ELSE ents
        sliced == IF slice_key # Unset THEN ApplySlice(filtered, slice_key) ELSE filtered
    IN  IF order_spec # Unset THEN EvalOrder(order_spec, sliced) ELSE sliced

\* iterator: filter, then order, then slice, each when set.
Iterate(filter_spec, order_spec, slice_key, ents) ==
    LET filtered == IF filter_spec # Unset THEN EvalFilter(filter_spec, ents) ELSE ents
        ordered == IF order_spec # Unset THEN EvalOrder(order_spec, filtered) ELSE filtered
    IN  IF slice_key # Unset THEN ApplySlice(ordered, slice_key) ELSE ordered

iterator(a) == Iterate(aggs[a].filter, aggs[a].order, aggs[a].slice, _get_entities(a))

\* count as the length of the backing list.
CountOfList(filter_spec, order_spec, slice_key, ents) == Len(ents)

\* count: len(list(self.iterator()))
CountOf(filter_spec, order_spec, slice_key, ents) ==
    Len(Iterate(filter_spec, order_spec, slice_key, ents))

count(a) == CountOf(aggs[a].filter, aggs[a].order, aggs[a].slice, _get_entities(a))

\* __check_existing comparing the IDs only.
CheckExistingIdOnly(ents, e) ==
    \E i \in 1..Len(ents) : EntityTable[ents[i]].id = EntityTable[e].id

\* __check_existing looking at slugs only.
CheckExistingSlugOnly(ents, e) ==
    \E i \in 1..Len(ents) : EntityTable[ents[i]].slug = EntityTable[e].slug

\* __check_existing
CheckExisting(ents, e) ==
    \E i \in 1..Len(ents) :
        \/ EntityTable[ents[i]].id = EntityTable[e].id
        \/ EntityTable[ents[i]].slug = EntityTable[e].slug

\* add without the check that an ID comes with a slug.
AddRaisesNoSlugCheck(ents, e) ==
    \/ EntityTable[e].cls # entity_class
    \/ ~EntityTable[e].hasId
    \/ ~EntityTable[e].hasSlug
    \/ /\ EntityTable[e].id # None
       /\ CheckExisting(ents, e)

\* add: whether one of its checks raises ValueError.
AddRaises(ents, e) ==
    \/ EntityTable[e].cls # entity_class
    \/ ~EntityTable[e].hasId
    \/ ~EntityTable[e].hasSlug
    \/ /\ EntityTable[e].id # None
       /\ \/ EntityTable[e].slug = None
          \/ CheckExisting(ents, e)

\* list.remove: the first occurrence.
RECURSIVE RemoveFirst(_, _)
RemoveFirst(ents, e) ==
    IF ents = <<>> THEN <<>>
    ELSE IF ents[1] = e THEN Tail(ents)
    ELSE <<ents[1]>> \o RemoveFirst(Tail(ents), e)

\* add / remove changing the aggregate's own list whatever its relationship.
WriteOwnList(agg, ents) ==
    /\ heap' = [heap EXCEPT ![agg.entities] = ents]
    /\ UNCHANGED children

\* The heap and the children after the list the aggregate agg uses is
\* replaced by ents (the list object is changed in place).
WriteEntities(agg, ents) ==
    IF agg.relationship = None
    THEN /\ heap' = [heap EXCEPT ![agg.entities] = ents]
         /\ UNCHANGED children
    ELSE /\ children' = [children EXCEPT ![agg.relationship] = ents]
         /\ UNCHANGED heap

Returned(op, a, arg, out) == ret' = [op |-> op, agg |-> a, arg |-> arg, out |-> out]

IsMem == cfg.backend = "mem"
IsOrm == cfg.backend = "orm"
Aggs == 1..Len(aggs)

MemAdd(a, e) ==
    /\ IsMem
    /\ IF AddRaises(_get_entities(a), e)
       THEN /\ Returned("add", a, e, "ValueError")
            /\ UNCHANGED <<heap, children>>
       ELSE /\ Len(_get_entities(a)) < MaxLen
            /\ WriteEntities(aggs[a], Append(_get_entities(a), e))
            /\ Returned("add", a, e, None)
    /\ UNCHANGED <<aggs, store, deleted, cfg, made_from, rc_vars>>

MemRemove(a, e) ==
    /\ IsMem
    /\ IF e \in Range(_get_entities(a))
       THEN /\ WriteEntities(aggs[a], RemoveFirst(_get_entities(a), e))
            /\ Returned("remove", a, e, None)
       ELSE /\ Returned("remove", a, e, "ValueError")
            /\ UNCHANGED <<heap, children>>
    /\ UNCHANGED <<aggs, store, deleted, cfg, made_from, rc_vars>>

MemGetById(a, id_key) ==
    /\ IsMem
    /\ Returned("get_by_id", a, id_key, get_by_id(a, id_key))
    /\ UNCHANGED <<aggs, heap, children, store, deleted, cfg, made_from, rc_vars>>

MemGetBySlug(a, slug) ==
    /\ IsMem
    /\ Returned("get_by_slug", a, slug, get_by_slug(a, slug))
    /\ UNCHANGED <<aggs, heap, children, store, deleted, cfg, made_from, rc_vars>>

MemCount(a) ==
    /\ IsMem
    /\ Returned("count", a, None, count(a))
    /\ UNCHANGED <<aggs, heap, children, store, deleted, cfg, made_from, rc_vars>>

\* list(iterator()): the generator run to its end.
MemIterator(a) ==
    /\ IsMem
    /\ Returned("iterator", a, None, iterator(a))
    /\ UNCHANGED <<aggs, heap, children, store, deleted, cfg, made_from, rc_vars>>

-----------------------------------------------------------------------------
(* MemoryAggregateImpl.iterator as the generator it is: iterator() returns *)
(* a generator whose body has not begun; the first next() reads the list   *)
(* and the three fields and enters the loop, every next() takes the item   *)
(* at the loop's position or ends the generator.  A generator is           *)
(* [state, agg, live, list, ents, pos, yielded]: with no field set the     *)
(* loop runs over the list object itself (live, list says which), else     *)
(* over the new list ents that the filter, sorted() or the slice made.     *)

\* The list object _get_entities returns.
ListOf(agg) ==
    IF agg.relationship = None
    THEN [kind |-> "heap", at |-> agg.entities, of |-> None]
    ELSE [kind |-> "children", at |-> 0, of |-> agg.relationship]

Deref(list, hp, ch) == IF list.kind = "heap" THEN hp[list.at] ELSE ch[list.of]

\* No list has been read yet.
NoList == [kind |-> "none", at |-> 0, of |-> None]

\* The generator object iterator() returns.
NewGen(a) ==
    [ state |-> "created", agg |-> a, live |-> FALSE, list |-> NoList,
      ents |-> <<>>, pos |-> 0, yielded |-> 0 ]

\* The body of iterator up to the loop.
GenBegun(g, agg, hp, ch) ==
    IF agg.filter = Unset /\ agg.order = Unset /\ agg.slice = Unset
    THEN [g EXCEPT !.state = "running", !.live = TRUE, !.list = ListOf(agg)]
    ELSE [g EXCEPT !.state = "running", !.live = FALSE, !.list = ListOf(agg),
                   !.ents = Iterate(agg.filter, agg.order, agg.slice, GetEntitiesOf(agg, hp, ch))]

\* The list the loop of a generator runs over, as it is now.
LoopList(g, hp, ch) == IF g.live THEN Deref(g.list, hp, ch) ELSE g.ents

\* next(generator): the generator afterwards and what it yields.
GenNext(g, ags, hp, ch) ==
    LET g1 == IF g.state = "created" THEN GenBegun(g, ags[g.agg], hp, ch) ELSE g
        ents == LoopList(g1, hp, ch)
    IN  IF g1.pos < Len(ents)
        THEN [gen |-> [g1 EXCEPT !.pos = @ + 1, !.yielded = @ + 1], out |-> ents[g1.pos + 1]]
        ELSE [gen |-> [g1 EXCEPT !.state = "done"], out |-> "StopIteration"]

\* iterator()
MemIterCall(a) ==
    /\ IsMem
    /\ gen.state \in {"none", "done"}
    /\ gen' = NewGen(a)
    /\ Returned("iterator_call", a, None, None)
    /\ UNCHANGED <<aggs, heap, children, store, deleted, cfg, made_from, colls, visitor>>

\* next() on the generator
MemIterNext ==
    /\ IsMem
    /\ gen.state \in {"created", "running"}
    /\ gen' = GenNext(gen, aggs, heap, children).gen
    /\ Returned("next", gen.agg, None, GenNext(gen, aggs, heap, children).out)
    /\ UNCHANGED <<aggs, heap, children, store, deleted, cfg, made_from, colls, visitor>>

-----------------------------------------------------------------------------
(* AggregateImpl: the fields and clone. *)

\* The filter kept in one place for every aggregate (as a class attribute).
WithFilterOfAll(ags, a, filter_spec) ==
    [b \in DOMAIN ags |-> [ags[b] EXCEPT !.filter = filter_spec]]

\* The filter assigned only while none is set: a later value is dropped.
WithFilterOnce(ags, a, filter_spec) ==
    IF ags[a].filter = Unset THEN [ags EXCEPT ![a].filter = filter_spec] ELSE ags

WithFilter(ags, a, filter_spec) == [ags EXCEPT ![a].filter = filter_spec]
WithOrder(ags, a, order_spec) == [ags EXCEPT ![a].order = order_spec]
WithSlice(ags, a, slice_key) == [ags EXCEPT ![a].slice = slice_key]
WithRelationship(ags, a, relationship) == [ags EXCEPT ![a].relationship = relationship]

\* _set_slice with an _apply_slice that runs the query at once: the session
\* is flushed.
SetSliceEager(a, slice_key) ==
    /\ aggs' = [aggs EXCEPT ![a].slice = slice_key]
    /\ ret' = [op |-> "set_slice", agg |-> a, arg |-> slice_key, out |-> None]
    /\ store' = store \ deleted
    /\ deleted' = {}
    /\ UNCHANGED <<heap, children, cfg, made_from, rc_vars>>

\* _set_filter (with _apply_filter, which does nothing in both classes)
SetFilter(a, filter_spec) ==
    /\ aggs' = WithFilter(aggs, a, filter_spec)
    /\ Returned("set_filter", a, filter_spec, None)
    /\ UNCHANGED <<heap, children, store, deleted, cfg, made_from, rc_vars>>

SetOrder(a, order_spec) ==
    /\ aggs' = WithOrder(aggs, a, order_spec)
    /\ Returned("set_order", a, order_spec, None)
    /\ UNCHANGED <<heap, children, store, deleted, cfg, made_from, rc_vars>>

SetSlice(a, slice_key) ==
    /\ aggs' = WithSlice(aggs, a, slice_key)
    /\ Returned("set_slice", a, slice_key, None)
    /\ UNCHANGED <<heap, children, store, deleted, cfg, made_from, rc_vars>>

SetRelationship(a, relationship) ==
    /\ aggs' = WithRelationship(aggs, a, relationship)
    /\ Returned("set_relationship", a, relationship, None)
    /\ UNCHANGED <<heap, children, store, deleted, cfg, made_from, rc_vars>>

\* create(entity_class) followed by the four assignments of AggregateImpl.clone.
\* fresh is the list the constructor of the clone binds to __entities.
BaseClone(agg, fresh) ==
    [ relationship |-> agg.relationship,
      filter |-> agg.filter,
      order |-> agg.order,
      slice |-> agg.slice,
      entities |-> fresh,
      search_mode |-> FALSE ]

\* MemoryAggregateImpl.clone that leaves the clone its own new list.
MemCloneOwnList(agg, fresh) == BaseClone(agg, fresh)

\* MemoryAggregateImpl.clone: without a relationship the clone is bound to the
\* list of the original.
MemCloneOf(agg, fresh) ==
    IF agg.relationship = None
    THEN [BaseClone(agg, fresh) EXCEPT !.entities = agg.entities]
    ELSE BaseClone(agg, fresh)

\* What the history keeps of a clone() call: the original and whether it had
\* a relationship then.  The constructed aggregate has no original (0).
Constructed == [of |-> 0, scoped |-> FALSE]
ClonedFrom(a) == [of |-> a, scoped |-> aggs[a].relationship # None]

MemClone(a) ==
    /\ IsMem
    /\ Len(aggs) < MaxAggs
    /\ LET fresh == Len(heap) + 1
           clone == MemCloneOf(aggs[a], fresh)
       IN  /\ aggs' = Append(aggs, clone)
           \* the list of the constructor is kept only when the clone uses it
           /\ heap' = IF clone.entities = fresh THEN Append(heap, <<>>) ELSE heap
           /\ made_from' = Append(made_from, ClonedFrom(a))
           /\ Returned("clone", a, None, Len(aggs) + 1)
    /\ UNCHANGED <<children, store, deleted, cfg, rc_vars>>

-----------------------------------------------------------------------------
(* OrmAggregateImpl: add, remove, clone and count.  The session is the one *)
(* scoped session every aggregate gets from Session(); store and deleted   *)
(* change only through the session calls the aggregate makes.              *)

\* session.flush(): the pending deletes reach the store.
Flushed(st, del) == st \ del

\* The relationship specification compiled by the SQL filter visitor: the
\* entities that are children of the parent.
RelationMatches(agg, ch, e) == e \in Range(ch[agg.relationship])

\* _get_base_query
BaseQuery(agg, st, ch) ==
    IF agg.relationship = None THEN st
    ELSE {e \in st : RelationMatches(agg, ch, e)}

\* __get_filtered_query
FilteredQuery(agg, st, ch) ==
    IF agg.filter # Unset
    THEN {e \in BaseQuery(agg, st, ch) : IsSatisfiedBy(agg.filter, e)}
    ELSE BaseQuery(agg, st, ch)

\* __defaults_empty
DefaultsEmpty(agg) == agg.filter = Unset /\ agg.search_mode

\* count: the value returned.
OrmCountOf(agg, st, del, ch) ==
    LET st1 == IF agg.relationship # None THEN Flushed(st, del) ELSE st
    IN  IF DefaultsEmpty(agg) THEN 0 ELSE Cardinality(FilteredQuery(agg, st1, ch))

OrmAdd(a, e) ==
    /\ IsOrm
    /\ IF aggs[a].relationship = None
       THEN \* session.add(entity); session.flush()
            /\ e \in store \/ Cardinality(store) < MaxLen
            /\ store' = Flushed(store \cup {e}, deleted \ {e})
            /\ deleted' = {}
            /\ UNCHANGED children
       ELSE /\ Len(children[aggs[a].relationship]) < MaxLen
            /\ children' = [children EXCEPT ![aggs[a].relationship] = Append(@, e)]
            /\ UNCHANGED <<store, deleted>>
    /\ Returned("add", a, e, None)
    /\ UNCHANGED <<aggs, heap, cfg, made_from, rc_vars>>

OrmRemove(a, e) ==
    /\ IsOrm
    /\ IF aggs[a].relationship = None
       THEN \* session.delete(entity): only a persistent entity can be marked
            /\ IF e \in store
               THEN deleted' = deleted \cup {e} /\ Returned("remove", a, e, None)
               ELSE UNCHANGED deleted /\ Returned("remove", a, e, "InvalidRequestError")
            /\ UNCHANGED <<store, children>>
       ELSE /\ IF e \in Range(children[aggs[a].relationship])
               THEN /\ children' = [children EXCEPT ![aggs[a].relationship] = RemoveFirst(@, e)]
                    /\ Returned("remove", a, e, None)
               ELSE UNCHANGED children /\ Returned("remove", a, e, "ValueError")
            /\ UNCHANGED <<store, deleted>>
    /\ UNCHANGED <<aggs, heap, cfg, made_from, rc_vars>>

\* AggregateImpl.clone with OrmAggregateImpl.create: a new aggregate on the
\* scoped session, search mode off.
OrmClone(a) ==
    /\ IsOrm
    /\ Len(aggs) < MaxAggs
    /\ aggs' = Append(aggs, BaseClone(aggs[a], 0))
    /\ made_from' = Append(made_from, ClonedFrom(a))
    /\ Returned("clone", a, None, Len(aggs) + 1)
    /\ UNCHANGED <<heap, children, store, deleted, cfg, rc_vars>>

-----------------------------------------------------------------------------
(* OrmAggregateImpl: the reads.  A query is the sequence of the calls that *)
(* built it: <<"query">>, <<"filter", spec>>, <<"outerjoin", attr>>,       *)
(* <<"order_by", spec>>, <<"slice", start, stop>>.  What a read returns is *)
(* [val, flushes, query]: the value (or the exception), the number of      *)
(* session.flush() calls made before the query was built, and the query    *)
(* that was run (<<>> when none was).                                      *)

\* The entities the store-backed aggregates are given: mapped, with an ID.
OrmEntities == {"e1", "e2", "e3"}

\* relationship.specification: the children of the parent.
RelationSpec(relationship) == <<"child_of", relationship>>

\* The joins the SQL order visitor collects: one for every attribute the
\* path goes through before its last token.
GetJoins(order_spec) == IF order_spec[2] = "parent.val" THEN <<"parent">> ELSE <<>>

\* _get_base_query
_get_base_query(agg) ==
    IF agg.relationship = None
    THEN << <<"query">> >>
    ELSE << <<"query">>, <<"filter", RelationSpec(agg.relationship)>> >>

\* __get_filtered_query (with _query_generator, which returns its query)
__get_filtered_query(agg) ==
    IF agg.filter # Unset
    THEN Append(_get_base_query(agg), <<"filter", agg.filter>>)
    ELSE _get_base_query(agg)

\* __get_ordered_query
__get_ordered_query(agg) ==
    IF agg.order # Unset
    THEN Append(__get_filtered_query(agg)
                  \o [i \in 1..Len(GetJoins(agg.order)) |-> <<"outerjoin", GetJoins(agg.order)[i]>>],
                <<"order_by", agg.order>>)
    ELSE __get_filtered_query(agg)

\* _get_data_query with the slice taken from the filtered query, before the
\* joins and the order-by.
DataQuerySliceFirst(agg) ==
    IF agg.slice # Unset
    THEN Append(__get_filtered_query(agg), <<"slice", agg.slice[1], agg.slice[2]>>)
           \o SubSeq(__get_ordered_query(agg), Len(__get_filtered_query(agg)) + 1,
                     Len(__get_ordered_query(agg)))
    ELSE __get_ordered_query(agg)

\* _get_data_query
_get_data_query(agg) ==
    IF agg.slice # Unset
    THEN Append(__get_ordered_query(agg), <<"slice", agg.slice[1], agg.slice[2]>>)
    ELSE __get_ordered_query(agg)

\* The store's side of a query: whether a row satisfies one filter criterion.
Matches(spec, e, ch) ==
    IF spec[1] = "child_of" THEN e \in Range(ch[spec[2]]) ELSE IsSatisfiedBy(spec, e)

Steps(q, kind) == {i \in 1..Len(q) : q[i][1] = kind}

\* The rows a query selects.
Matching(q, st, ch) ==
    {e \in st : \A i \in Steps(q, "filter") : Matches(q[i][2], e, ch)}

\* A query refuses a criterion, a join or an order once it has a LIMIT/OFFSET.
Refused(q) ==
    \E i \in Steps(q, "slice") : \E j \in (i + 1)..Len(q) : q[j][1] # "slice"

\* The orders in which the store may return the rows: every order when the
\* query has no ORDER BY, else every order the ORDER BY allows.
RowOrders(q, rows) ==
    {f \in [1..Cardinality(rows) -> rows] :
        /\ \A i, j \in 1..Cardinality(rows) : i # j => f[i] # f[j]
        /\ \A k \in Steps(q, "order_by") :
              \A i, j \in 1..Cardinality(rows) : i < j => ~ComesAfter(q[k][2], f[i], f[j])}

\* iter(query): the sequences the query may yield.
Rows(q, st, ch) ==
    IF Refused(q) THEN {"InvalidRequestError"}
    ELSE {IF Steps(q, "slice") = {} THEN f
          ELSE LET k == CHOOSE i \in Steps(q, "slice") : TRUE
               IN  ApplySlice(f, <<q[k][2], q[k][3]>>) :
          f \in RowOrders(q, Matching(q, st, ch))}

\* query.one() with neither of the store's exceptions caught.
OneUncaught(rows) ==
    IF Cardinality(rows) = 1 THEN CHOOSE e \in rows : TRUE
    ELSE IF Cardinality(rows) = 0 THEN "NoResultFound"
    ELSE "MultipleResultsFound"

\* query.one() inside the try of get_by_id / get_by_slug: the entity, None
\* for NoResultFound, DuplicateException for MultipleResultsFound.
One(rows) ==
    IF Cardinality(rows) = 1 THEN CHOOSE e \in rows : TRUE
    ELSE IF Cardinality(rows) = 0 THEN None
    ELSE "DuplicateException"

Read(val, flushes, query) == [val |-> val, flushes |-> flushes, query |-> query]

\* count
OrmCount(a) ==
    /\ IsOrm
    /\ LET agg == aggs[a]
           flushes == IF agg.relationship # None THEN 1 ELSE 0
           st == IF flushes > 0 THEN Flushed(store, deleted) ELSE store
       IN  /\ store' = st
           /\ deleted' = IF flushes > 0 THEN {} ELSE deleted
           /\ IF DefaultsEmpty(agg)
              THEN Returned("count", a, None, Read(0, flushes, <<>>))
              ELSE Returned("count", a, None,
                            Read(Cardinality(Matching(__get_filtered_query(agg), st, children)),
                                 flushes, __get_filtered_query(agg)))
    /\ UNCHANGED <<aggs, heap, children, cfg, made_from, rc_vars>>

\* get_by_id / get_by_slug: the filtered query, filter_by(attr=value), one().
OrmLookup(agg, attr, value, st, ch) ==
    LET query == Append(__get_filtered_query(agg), <<"filter", <<"equal_to", attr, value>> >>)
    IN  Read(One(Matching(query, st, ch)), 0, query)

OrmGetById(a, id_key) ==
    /\ IsOrm
    /\ Returned("get_by_id", a, id_key, OrmLookup(aggs[a], "id", id_key, store, children))
    /\ UNCHANGED <<aggs, heap, children, store, deleted, cfg, made_from, rc_vars>>

OrmGetBySlug(a, slug) ==
    /\ IsOrm
    /\ Returned("get_by_slug", a, slug, OrmLookup(aggs[a], "slug", slug, store, children))
    /\ UNCHANGED <<aggs, heap, children, store, deleted, cfg, made_from, rc_vars>>

\* What list(iterator()) may give: with the defaults empty the generator
\* reaches its bare yield, which yields None once; else the session is
\* flushed and the rows of the data query are yielded.
OrmIterate(agg, st, ch) ==
    IF DefaultsEmpty(agg) THEN {<<None>>} ELSE Rows(_get_data_query(agg), st, ch)

\* list(iterator()): the generator run to its end.
OrmIterator(a) ==
    /\ IsOrm
    /\ LET agg == aggs[a]
           first == IF agg.relationship # None THEN 1 ELSE 0
           flushes == IF DefaultsEmpty(agg) THEN first ELSE first + 1
           st == IF flushes > 0 THEN Flushed(store, deleted) ELSE store
       IN  /\ store' = st
           /\ deleted' = IF flushes > 0 THEN {} ELSE deleted
           /\ \E rows \in OrmIterate(agg, st, children) :
                 Returned("iterator", a, None,
                          Read(rows, flushes,
                               IF DefaultsEmpty(agg) THEN <<>> ELSE _get_data_query(agg)))
    /\ UNCHANGED <<aggs, heap, children, cfg, made_from, rc_vars>>

-----------------------------------------------------------------------------
(* Specifications and the resource-to-entity visitors (resources/base.py). *)
(* A specification is a tree: a nullary node <<op, attr_name, attr_value>> *)
(* (an order leaf is <<op, attr_name>>), a unary node <<op, wrapped>>, a   *)
(* binary node <<op, left, right>>.  op stands for the node's class and    *)
(* tells its arity; attr_name is the dotted path as the sequence of its    *)
(* tokens.                                                                 *)

\* Most nodes in a specification tree.
MaxNodes == 5

\* The attributes declared by the resource classes: the kind, the name of
\* the entity's attribute and, for a nested attribute, the interface of
\* the target resource.  Every member class has the terminal id.
ResourceAttrs ==
    [ MemberA |->
        [ id     |-> [kind |-> "TERMINAL",   entity_name |-> "id",         value_type |-> "int"],
          name   |-> [kind |-> "TERMINAL",   entity_name |-> "ent_name",   value_type |-> "str"],
          parent |-> [kind |-> "MEMBER",     entity_name |-> "ent_parent", value_type |-> "IMemberB"],
          items  |-> [kind |-> "COLLECTION", entity_name |-> "ent_items",  value_type |-> "IMemberB"] ],
      MemberB |->
        [ id     |-> [kind |-> "TERMINAL",   entity_name |-> "id",         value_type |-> "int"],
          title  |-> [kind |-> "TERMINAL",   entity_name |-> "ent_title",  value_type |-> "str"] ] ]

get_resource_class_attributes(rc_class) == ResourceAttrs[rc_class]

\* get_member_class of a resource interface, and of a collection.
get_member_class(value_type) == IF value_type = "IMemberB" THEN "MemberB" ELSE "MemberA"

\* The dotted paths of the leaves.
AttrNames ==
    { <<"name">>, <<"parent", "title">>, <<"items", "id">>,
      <<"title">>, <<"parent", "name">>, <<"id", "id">> }

Nullary(op, attr_name, attr_value) == <<op, attr_name, attr_value>>
OrderLeaf(op, attr_name) == <<op, attr_name>>
Unary(op, wrapped) == <<op, wrapped>>
Binary(op, left, right) == <<op, left, right>>

\* The classes of the inner nodes, and the arity of a node.
UnaryOps == {"not"}
BinaryOps == {"and", "or", "conjunction"}
KindOf(spec) ==
    IF spec[1] \in UnaryOps THEN "unary"
    ELSE IF spec[1] \in BinaryOps THEN "binary" ELSE "nullary"

FilterLeaves ==
    {Nullary("equal_to", n, 1) : n \in AttrNames \ {<<"parent", "title">>}}
    \cup {Nullary("greater_than", <<"parent", "title">>, 2)}
OrderLeaves == {OrderLeaf("asc", <<"name">>), OrderLeaf("desc", <<"parent", "title">>),
                OrderLeaf("asc", <<"title">>)}

\* The trees of n nodes over the given leaves and classes of inner nodes.
RECURSIVE TreesOfSize(_, _, _, _)
TreesOfSize(n, leaves, unaries, binaries) ==
    IF n = 1 THEN leaves
    ELSE {Unary(op, t) : op \in unaries, t \in TreesOfSize(n - 1, leaves, unaries, binaries)}
         \cup UNION {{Binary(op, l, r) : op \in binaries,
                                        l \in TreesOfSize(i, leaves, unaries, binaries),
                                        r \in TreesOfSize(n - 1 - i, leaves, unaries, binaries)} :
                     i \in 1..(n - 2)}

FilterTrees == UNION {TreesOfSize(n, FilterLeaves, UnaryOps, {"and", "or"}) : n \in 1..MaxNodes}
OrderTrees == UNION {TreesOfSize(n, OrderLeaves, {}, {"conjunction"}) : n \in 1..MaxNodes}

\* spec.accept(visitor): the nodes in the order they are visited, children
\* before the node, left before right.
RECURSIVE PostOrder(_)
PostOrder(spec) ==
    CASE KindOf(spec) = "nullary" -> <<spec>>
      [] KindOf(spec) = "unary" -> Append(PostOrder(spec[2]), spec)
      [] KindOf(spec) = "binary" -> Append(PostOrder(spec[2]) \o PostOrder(spec[3]), spec)

\* __convert_to_entity_attr that takes a token it does not find as it is.
RECURSIVE ConvertKeepUnknown(_, _)
ConvertKeepUnknown(rc_class, tokens) ==
    IF tokens = <<>> THEN <<>>
    ELSE IF Head(tokens) \notin DOMAIN get_resource_class_attributes(rc_class)
    THEN <<Head(tokens)>> \o ConvertKeepUnknown(rc_class, Tail(tokens))
    ELSE LET rc_attr == get_resource_class_attributes(rc_class)[Head(tokens)]
             next_class == IF rc_attr.kind # "TERMINAL"
                           THEN get_member_class(rc_attr.value_type) ELSE rc_class
         IN  <<rc_attr.entity_name>> \o ConvertKeepUnknown(next_class, Tail(tokens))

\* __convert_to_entity_attr that looks every token up on the class it
\* started from.
RECURSIVE ConvertNoDescent(_, _)
ConvertNoDescent(rc_class, tokens) ==
    IF tokens = <<>> THEN <<>>
    ELSE IF Head(tokens) \notin DOMAIN get_resource_class_attributes(rc_class)
    THEN "KeyError"
    ELSE LET rc_attr == get_resource_class_attributes(rc_class)[Head(tokens)]
             rest == ConvertNoDescent(rc_class, Tail(tokens))
         IN  IF rest = "KeyError" THEN "KeyError" ELSE <<rc_attr.entity_name>> \o rest

\* __convert_to_entity_attr: the entity attribute tokens, or KeyError from
\* the lookup of a token the current class does not declare.
RECURSIVE ConvertToEntityAttr(_, _)
ConvertToEntityAttr(rc_class, tokens) ==
    IF tokens = <<>> THEN <<>>
    ELSE IF Head(tokens) \notin DOMAIN get_resource_class_attributes(rc_class)
    THEN "KeyError"
    ELSE LET rc_attr == get_resource_class_attributes(rc_class)[Head(tokens)]
             next_class == IF rc_attr.kind # "TERMINAL"
                           THEN get_member_class(rc_attr.value_type) ELSE rc_class
             rest == ConvertToEntityAttr(next_class, Tail(tokens))
         IN  IF rest = "KeyError" THEN "KeyError" ELSE <<rc_attr.entity_name>> \o rest

\* _make_new_spec that returns the leaf it was given, under its old name.
MakeNewSpecOldName(flavor, new_attr_name, old_spec) == old_spec

\* _make_new_spec of the filter and of the order visitor.
MakeNewSpec(flavor, new_attr_name, old_spec) ==
    IF flavor = "filter"
    THEN Nullary(old_spec[1], new_attr_name, old_spec[3])
    ELSE OrderLeaf(old_spec[1], new_attr_name)

\* A visitor just constructed, about to be accepted into spec.
NewVisitor(flavor, rc_class, spec) ==
    [ state |-> "visiting", flavor |-> flavor, rc_class |-> rc_class, spec |-> spec,
      todo |-> PostOrder(spec), stack |-> <<>>, error |-> None ]

Failed(v, error) == [v EXCEPT !.state = "failed", !.error = error]

\* _push / _pop of SpecificationVisitorBase.
Push(stack, value) == Append(stack, value)
Pop(stack) == SubSeq(stack, 1, Len(stack) - 1)
Top(stack) == stack[Len(stack)]

visit_nullary(v, spec) ==
    LET entity_attr_name == ConvertToEntityAttr(v.rc_class, spec[2])
    IN  IF entity_attr_name = "KeyError" THEN Failed(v, "KeyError")
        ELSE [v EXCEPT !.stack = Push(@, MakeNewSpec(v.flavor, entity_attr_name, spec))]

\* visit_unary that reads the last value without taking it from the stack.
VisitUnaryNoPop(v, spec) ==
    IF v.stack = <<>> THEN Failed(v, "IndexError")
    ELSE [v EXCEPT !.stack = Push(@, Unary(spec[1], Top(v.stack)))]

visit_unary(v, spec) ==
    IF v.stack = <<>> THEN Failed(v, "IndexError")
    ELSE [v EXCEPT !.stack = Push(Pop(@), Unary(spec[1], Top(v.stack)))]

\* visit_binary that takes the first value popped as the left operand.
VisitBinarySwapped(v, spec) ==
    IF Len(v.stack) < 2 THEN Failed(v, "IndexError")
    ELSE LET left == Top(v.stack)
             right == Top(Pop(v.stack))
         IN  [v EXCEPT !.stack = Push(Pop(Pop(@)), Binary(spec[1], left, right))]

visit_binary(v, spec) ==
    IF Len(v.stack) < 2 THEN Failed(v, "IndexError")
    ELSE LET right == Top(v.stack)
             left == Top(Pop(v.stack))
         IN  [v EXCEPT !.stack = Push(Pop(Pop(@)), Binary(spec[1], left, right))]

\* One visit: the visiting method of the node's arity is called with the
\* next node of the traversal; an exception ends the traversal.
Visited(v, visit) ==
    LET after == [visit EXCEPT !.todo = Tail(v.todo)]
    IN  IF visit.state = "failed" THEN visit
        ELSE IF after.todo = <<>> THEN [after EXCEPT !.state = "done"] ELSE after

Visit(v) ==
    LET spec == Head(v.todo)
    IN  CASE KindOf(spec) = "nullary" -> Visited(v, visit_nullary(v, spec))
          [] KindOf(spec) = "unary" -> Visited(v, visit_unary(v, spec))
          [] KindOf(spec) = "binary" -> Visited(v, visit_binary(v, spec))

\* accept run to its end: the visitor after the traversal.
RECURSIVE Traversed(_)
Traversed(v) == IF v.state = "visiting" THEN Traversed(Visit(v)) ELSE v

\* spec.accept(visitor) with a visitor just constructed for the member class.
Accept(flavor, spec) ==
    /\ visitor.state = "none"
    /\ visitor' = NewVisitor(flavor, "MemberA", spec)
    /\ Returned("accept", 0, spec, None)
    /\ UNCHANGED <<aggs, heap, children, store, deleted, cfg, made_from, colls, gen>>

VisitStep(kind) ==
    /\ visitor.state = "visiting"
    /\ KindOf(Head(visitor.todo)) = kind
    /\ visitor' = Visit(visitor)
    /\ UNCHANGED <<aggs, heap, children, store, deleted, cfg, made_from, colls, ret, gen>>

VisitNullary == VisitStep("nullary")
VisitUnary == VisitStep("unary")
VisitBinary == VisitStep("binary")

\* visitor.expression, read after the traversal.
Expression ==
    /\ visitor.state = "done"
    /\ visitor' = [visitor EXCEPT !.state = "read"]
    /\ Returned("expression", 0, visitor.spec,
                IF visitor.stack = <<>> THEN "IndexError" ELSE Top(visitor.stack))
    /\ UNCHANGED <<aggs, heap, children, store, deleted, cfg, made_from, colls, gen>>

-----------------------------------------------------------------------------
(* Collection (resources/base.py): the filter and the order.  A collection *)
(* is [aggregate, filter_spec, order_spec, parent, relation]: its          *)
(* aggregate (a position in aggs), the resource-relative specifications it *)
(* keeps, and what set_parent gave it.                                     *)

NewCollection(aggregate) ==
    [ aggregate |-> aggregate, filter_spec |-> Unset, order_spec |-> Unset,
      parent |-> None, relation |-> None ]

Colls == 1..Len(colls)

\* The specifications assigned to a collection; some do not translate.
CollFilterSpecs ==
    { Nullary("equal_to", <<"name">>, 1),
      Nullary("greater_than", <<"parent", "title">>, 2),
      Unary("not", Nullary("equal_to", <<"name">>, 1)),
      Binary("and", Nullary("equal_to", <<"name">>, 1), Nullary("greater_than", <<"parent", "title">>, 2)),
      Nullary("equal_to", <<"title">>, 1),
      Binary("or", Nullary("greater_than", <<"parent", "title">>, 2), Nullary("equal_to", <<"parent", "name">>, 1)),
      Binary("and", Nullary("equal_to", <<"title">>, 1), Nullary("equal_to", <<"name">>, 1)) }

CollOrderSpecs ==
    { OrderLeaf("asc", <<"name">>),
      OrderLeaf("desc", <<"parent", "title">>),
      Binary("conjunction", OrderLeaf("asc", <<"name">>), OrderLeaf("desc", <<"parent", "title">>)),
      OrderLeaf("asc", <<"title">>),
      Binary("conjunction", OrderLeaf("asc", <<"name">>), OrderLeaf("asc", <<"title">>)) }

\* The translation by a visitor that is not constructed for the member class
\* but starts from the class the walk of the visitor before it ended in.
TranslateFromLastClass(flavor, spec) ==
    IF spec = Unset
    THEN [ state |-> "failed", flavor |-> flavor, rc_class |-> "MemberA", spec |-> spec,
           todo |-> <<>>, stack |-> <<>>, error |-> "AttributeError" ]
    ELSE Traversed(NewVisitor(flavor, IF visitor.state = "none" THEN "MemberA" ELSE "MemberB", spec))

\* The visitor constructed by _set_filter / _set_order after
\* spec.accept(visitor); None has no accept.
Translate(flavor, spec) ==
    IF spec = Unset
    THEN [ state |-> "failed", flavor |-> flavor, rc_class |-> "MemberA", spec |-> spec,
           todo |-> <<>>, stack |-> <<>>, error |-> "AttributeError" ]
    ELSE Traversed(NewVisitor(flavor, "MemberA", spec))

\* The collection's own specification stored before the translation is made.
KeptStoredFirst(kept, spec, v) == spec

\* The collection's own specification after the call: assigned in the last
\* statement, which an exception before it leaves unreached.
Kept(kept, spec, v) == IF v.state = "done" THEN spec ELSE kept

\* Collection._set_filter
CollSetFilter(c, filter_spec) ==
    LET v == Translate("filter", filter_spec)
    IN  /\ IF v.state = "done"
           THEN /\ visitor' = [v EXCEPT !.state = "read"]
                /\ aggs' = WithFilter(aggs, colls[c].aggregate, Top(v.stack))
                /\ Returned("coll_set_filter", c, filter_spec, None)
           ELSE /\ visitor' = v
                /\ UNCHANGED aggs
                /\ Returned("coll_set_filter", c, filter_spec, v.error)
        /\ colls' = [colls EXCEPT ![c].filter_spec = Kept(@, filter_spec, v)]
        /\ UNCHANGED <<heap, children, store, deleted, cfg, made_from, gen>>

\* Collection._set_order
CollSetOrder(c, order_spec) ==
    LET v == Translate("order", order_spec)
    IN  /\ IF v.state = "done"
           THEN /\ visitor' = [v EXCEPT !.state = "read"]
                /\ aggs' = WithOrder(aggs, colls[c].aggregate, Top(v.stack))
                /\ Returned("coll_set_order", c, order_spec, None)
           ELSE /\ visitor' = v
                /\ UNCHANGED aggs
                /\ Returned("coll_set_order", c, order_spec, v.error)
        /\ colls' = [colls EXCEPT ![c].order_spec = Kept(@, order_spec, v)]
        /\ UNCHANGED <<heap, children, store, deleted, cfg, made_from, gen>>

\* The relation a nested collection is given by set_parent.
CollRelations == {"rel"}

\* relation.specification and create_conjunction of the filter factory
FilterOfRelation(relation) == Nullary("equal_to", <<"parent">>, relation)
create_conjunction(left_spec, right_spec) == Binary("and", left_spec, right_spec)

\* Collection._get_filter: what collection.filter reads.
CollFilterOf(coll) ==
    IF coll.relation = None THEN coll.filter_spec
    ELSE IF coll.filter_spec = Unset THEN FilterOfRelation(coll.relation)
    ELSE create_conjunction(FilterOfRelation(coll.relation), coll.filter_spec)

CollGetFilter(c) ==
    /\ Returned("coll_get_filter", c, None,
                IF CollFilterOf(colls[c]) = Unset THEN None ELSE CollFilterOf(colls[c]))
    /\ UNCHANGED <<aggs, heap, children, store, deleted, cfg, made_from, colls, visitor, gen>>

\* Collection.clone: the aggregate cloned, a collection created from the
\* clone, the parent, the relation and the two specifications carried over.
CollClone(c) ==
    /\ Len(aggs) < MaxAggs
    /\ LET a == colls[c].aggregate
           fresh == Len(heap) + 1
           agg == IF IsMem THEN MemCloneOf(aggs[a], fresh) ELSE BaseClone(aggs[a], 0)
       IN  /\ aggs' = Append(aggs, agg)
           /\ heap' = IF IsMem /\ agg.entities = fresh THEN Append(heap, <<>>) ELSE heap
           /\ made_from' = Append(made_from, ClonedFrom(a))
           /\ colls' = Append(colls,
                  [NewCollection(Len(aggs) + 1) EXCEPT
                      !.parent = colls[c].parent,
                      !.relation = colls[c].relation,
                      !.filter_spec = colls[c].filter_spec,
                      !.order_spec = colls[c].order_spec])
           /\ Returned("coll_clone", c, None, Len(colls) + 1)
    /\ UNCHANGED <<children, store, deleted, cfg, visitor, gen>>

-----------------------------------------------------------------------------
(* Collection: the members.  A member is [entity, name]: the entity it    *)
(* wraps and the name it was constructed with (None for none).  add        *)
(* returns [val, parent]: the exception raised (None for none) and the     *)
(* member's __parent__ after the call.  The data handed to                 *)
(* update_from_data is the sequence of its member elements, each           *)
(* [link, id, ent]: whether it is a link, the ID it carries, and for an    *)
(* element without an ID the entity create_from_data makes of it.          *)

\* Most member elements in the data of an update.
MaxData == 2

NewMember(entity, name) == [entity |-> entity, name |-> name]

\* Member.__name__
MemberName(member) ==
    IF member.name # None THEN member.name ELSE EntityTable[member.entity].slug

Outcome(val, parent) == [val |-> val, parent |-> parent]

\* Collection.add
CollAdd(c, member) ==
    LET a == colls[c].aggregate
        e == member.entity
    IN  /\ IF IsMem
           THEN IF AddRaises(_get_entities(a), e)
                THEN /\ Returned("coll_add", c, member, Outcome("ValueError", None))
                     /\ UNCHANGED <<heap, children>>
                ELSE /\ Len(_get_entities(a)) < MaxLen
                     /\ WriteEntities(aggs[a], Append(_get_entities(a), e))
                     /\ Returned("coll_add", c, member, Outcome(None, c))
           ELSE /\ IF aggs[a].relationship = None
                   THEN /\ e \in store \/ Cardinality(store) < MaxLen
                        /\ UNCHANGED children
                   ELSE /\ Len(children[aggs[a].relationship]) < MaxLen
                        /\ children' = [children EXCEPT ![aggs[a].relationship] = Append(@, e)]
                /\ UNCHANGED heap
                /\ Returned("coll_add", c, member, Outcome(None, c))
        /\ store' = IF IsOrm /\ aggs[a].relationship = None
                    THEN Flushed(store \cup {e}, deleted \ {e}) ELSE store
        /\ deleted' = IF IsOrm /\ aggs[a].relationship = None THEN {} ELSE deleted
        /\ UNCHANGED <<aggs, cfg, made_from, colls, visitor, gen>>

\* The member elements an update may hold.
DataElements ==
    { [link |-> TRUE,  id |-> "i3", ent |-> None],
      [link |-> FALSE, id |-> "i1", ent |-> None],
      [link |-> FALSE, id |-> "i2", ent |-> None],
      [link |-> FALSE, id |-> "i3", ent |-> None],
      [link |-> FALSE, id |-> None, ent |-> "e4"] }

DataSets == UNION {[1..n -> DataElements] : n \in 0..MaxData}

\* self_id_map: the IDs of the members iteration shows.
SelfIds(members) == {GetAttr(members[i], "id") : i \in 1..Len(members)}

Examination(error, update_ids, new_mb_els) ==
    [error |-> error, update_ids |-> update_ids, new |-> new_mb_els]

\* The first loop of update_from_data taking an element with an unknown ID
\* for a new member.
RECURSIVE ExaminedLenient(_, _)
ExaminedLenient(data, self_ids) ==
    IF data = <<>> THEN Examination(None, {}, <<>>)
    ELSE LET el == Head(data)
             rest == ExaminedLenient(Tail(data), self_ids)
         IN  IF ~el.link /\ el.id = None
             THEN Examination(None, rest.update_ids, <<el.ent>> \o rest.new)
             ELSE IF ~el.link /\ el.id \notin self_ids
             THEN Examination(None, rest.update_ids, <<"e4">> \o rest.new)
             ELSE Examination(None, rest.update_ids \cup {el.id}, rest.new)

\* The first loop of update_from_data: ValueError at the first element that
\* is no link and has an ID no member has; else the IDs met and the
\* entities of the elements without an ID, in the order of the data.
RECURSIVE Examined(_, _)
Examined(data, self_ids) ==
    IF data = <<>> THEN Examination(None, {}, <<>>)
    ELSE LET el == Head(data)
             rest == Examined(Tail(data), self_ids)
         IN  IF ~el.link /\ el.id # None /\ el.id \notin self_ids
             THEN Examination("ValueError", {}, <<>>)
             ELSE IF rest.error # None THEN rest
             ELSE IF ~el.link /\ el.id = None
             THEN Examination(None, rest.update_ids, <<el.ent>> \o rest.new)
             ELSE Examination(None, rest.update_ids \cup {el.id}, rest.new)

\* The lists after the list agg uses is replaced by ents.
Written(agg, ents, hp, ch) ==
    IF agg.relationship = None
    THEN [heap |-> [hp EXCEPT ![agg.entities] = ents], children |-> ch]
    ELSE [heap |-> hp, children |-> [ch EXCEPT ![agg.relationship] = ents]]

\* The second loop of update_from_data over an in-memory aggregate: the
\* generator g is resumed until it ends, and every member it yields whose ID
\* the data does not have is removed from the list of the aggregate.
RECURSIVE RemovedMissing(_, _, _, _, _)
RemovedMissing(g, ags, update_ids, hp, ch) ==
    CHOOSE after \in
        { IF step.out = "StopIteration" THEN [heap |-> hp, children |-> ch]
          ELSE IF GetAttr(step.out, "id") \in update_ids
          THEN RemovedMissing(step.gen, ags, update_ids, hp, ch)
          ELSE CHOOSE rest \in
                  { RemovedMissing(step.gen, ags, update_ids, w.heap, w.children) :
                    w \in {Written(ags[g.agg],
                                   RemoveFirst(GetEntitiesOf(ags[g.agg], hp, ch), step.out),
                                   hp, ch)} } : TRUE :
          step \in {GenNext(g, ags, hp, ch)} } : TRUE

\* The third loop over an in-memory aggregate: the new members added one by
\* one until an add raises.
RECURSIVE AddedAll(_, _, _, _)
AddedAll(new, agg, hp, ch) ==
    IF new = <<>> THEN [error |-> None, heap |-> hp, children |-> ch]
    ELSE IF AddRaises(GetEntitiesOf(agg, hp, ch), Head(new))
    THEN [error |-> "ValueError", heap |-> hp, children |-> ch]
    ELSE CHOOSE after \in
            { AddedAll(Tail(new), agg, w.heap, w.children) :
              w \in {Written(agg, Append(GetEntitiesOf(agg, hp, ch), Head(new)), hp, ch)} } : TRUE

\* Collection.update_from_data over an in-memory aggregate.
MemUpdateFromData(c, data) ==
    LET a == colls[c].aggregate
    IN  /\ IsMem
        /\ \E ex \in {Examined(data, SelfIds(iterator(a)))} :
              IF ex.error # None
              THEN /\ Returned("update_from_data", c, data, ex.error)
                   /\ UNCHANGED <<heap, children>>
              ELSE \E removed \in {RemovedMissing(NewGen(a), aggs, ex.update_ids, heap, children)} :
                   \E added \in {AddedAll(ex.new, aggs[a], removed.heap, removed.children)} :
                      /\ Len(GetEntitiesOf(aggs[a], added.heap, added.children)) <= MaxLen
                      /\ heap' = added.heap
                      /\ children' = added.children
                      /\ Returned("update_from_data", c, data, added.error)
        /\ UNCHANGED <<aggs, store, deleted, cfg, made_from, colls, visitor, gen>>

RECURSIVE RemovedEach(_, _)
RemovedEach(ents, es) ==
    IF es = <<>> THEN ents ELSE RemovedEach(RemoveFirst(ents, Head(es)), Tail(es))

\* Collection.update_from_data over a store-backed aggregate that is not in
\* search mode without a filter: each of the two iterations flushes the
\* session and runs the data query; a member is removed by session.delete
\* (by children.remove when the aggregate is scoped), a new one is added by
\* session.add and a flush (by children.append).
OrmUpdateFromData(c, data) ==
    LET a == colls[c].aggregate
        agg == aggs[a]
        st == Flushed(store, deleted)
    IN  /\ IsOrm
        /\ ~DefaultsEmpty(agg)
        /\ \E ex \in {Examined(data, SelfIds(rows1)) : rows1 \in Rows(_get_data_query(agg), st, children)} :
           \E missing \in {SelectSeq(rows2, LAMBDA e : GetAttr(e, "id") \notin ex.update_ids) :
                               rows2 \in Rows(_get_data_query(agg), st, children)} :
                  IF ex.error # None
                  THEN /\ store' = st
                       /\ deleted' = {}
                       /\ UNCHANGED children
                       /\ Returned("update_from_data", c, data, ex.error)
                  ELSE /\ IF agg.relationship = None
                          THEN /\ store' = IF ex.new = <<>> THEN st
                                           ELSE (st \ Range(missing)) \cup Range(ex.new)
                               /\ deleted' = IF ex.new = <<>> THEN Range(missing) ELSE {}
                               /\ Cardinality(store') <= MaxLen
                               /\ UNCHANGED children
                          ELSE /\ store' = st
                               /\ deleted' = {}
                               /\ children' = [children EXCEPT ![agg.relationship] =
                                                  RemovedEach(@, missing) \o ex.new]
                               /\ Len(children'[agg.relationship]) <= MaxLen
                       /\ Returned("update_from_data", c, data, None)
        /\ UNCHANGED <<aggs, heap, cfg, made_from, colls, visitor, gen>>

-----------------------------------------------------------------------------
(* Specifications. *)

NewAggregate(relationship, entities, search_mode) ==
    [ relationship |-> relationship, filter |-> Unset, order |-> Unset,
      slice |-> Unset, entities |-> entities, search_mode |-> search_mode ]

NoCall == [op |-> "init", agg |-> 1, arg |-> None, out |-> None]

\* No visitor has been constructed.
NoVisitor == [state |-> "none"]

\* No generator is suspended.
NoGen == [state |-> "none"]

EmptyWorld ==
    /\ children = [r \in Relationships |-> <<>>]
    /\ store = {}
    /\ deleted = {}
    /\ made_from = <<Constructed>>
    /\ ret = NoCall
    /\ colls = <<>>
    /\ visitor = NoVisitor
    /\ gen = NoGen

\* One in-memory aggregate, its relationship given (or not) right after
\* construction; every method but clone.
Init ==
    /\ cfg = [backend |-> "mem"]
    /\ \E r \in {None, "r1"} : aggs = <<NewAggregate(r, 1, FALSE)>>
    /\ heap = << <<>> >>
    /\ EmptyWorld

Next ==
    \/ \E a \in Aggs, e \in Entities : MemAdd(a, e)
    \/ \E a \in Aggs, e \in Entities : MemRemove(a, e)
    \/ \E a \in Aggs, k \in IdKeys : MemGetById(a, k)
    \/ \E a \in Aggs, s \in SlugKeys : MemGetBySlug(a, s)
    \/ \E a \in Aggs : MemCount(a)
    \/ \E a \in Aggs : MemIterator(a)
    \/ \E a \in Aggs, f \in FilterSpecs \cup {Unset} : SetFilter(a, f)
    \/ \E a \in Aggs, o \in OrderSpecs \cup {Unset} : SetOrder(a, o)
    \/ \E a \in Aggs, s \in SliceKeys \cup {Unset} : SetSlice(a, s)

Spec == Init /\ [][Next]_vars

\* An aggregate of either class and its clones, scoped and unscoped over
\* and over, with an entity added and removed through each of them.
ShareEntities == {"e1"}

InitShare ==
    /\ \E b \in {"mem", "orm"} :
          /\ cfg = [backend |-> b]
          /\ aggs = <<NewAggregate(None, IF b = "mem" THEN 1 ELSE 0, FALSE)>>
          /\ heap = IF b = "mem" THEN << <<>> >> ELSE <<>>
    /\ EmptyWorld

NextShare ==
    \/ \E a \in Aggs, e \in ShareEntities : MemAdd(a, e)
    \/ \E a \in Aggs, e \in ShareEntities : MemRemove(a, e)
    \/ \E a \in Aggs : MemClone(a)
    \/ \E a \in Aggs, e \in ShareEntities : OrmAdd(a, e)
    \/ \E a \in Aggs, e \in ShareEntities : OrmRemove(a, e)
    \/ \E a \in Aggs : OrmClone(a)
    \/ \E a \in Aggs, r \in Relationships \cup {None} : SetRelationship(a, r)

SpecShare == InitShare /\ [][NextShare]_vars

\* One store-backed aggregate, constructed with search mode on or off: every
\* method but clone.  Any mapped entity is added and removed through the
\* session, one of them through the children of a relationship as well.
OrmOrderSpecs == {<<"asc", "val">>, <<"asc", "parent.val">>}
ChildEntities == {"e1"}

InitOrm ==
    /\ cfg = [backend |-> "orm"]
    /\ \E m \in BOOLEAN : aggs = <<NewAggregate(None, 0, m)>>
    /\ heap = <<>>
    /\ EmptyWorld

NextOrm ==
    \/ \E a \in Aggs, e \in OrmEntities :
          /\ aggs[a].relationship # None => e \in ChildEntities
          /\ OrmAdd(a, e)
    \/ \E a \in Aggs, e \in OrmEntities :
          /\ aggs[a].relationship # None => e \in ChildEntities
          /\ OrmRemove(a, e)
    \/ \E a \in Aggs : OrmCount(a)
    \/ \E a \in Aggs : OrmIterator(a)
    \/ \E a \in Aggs, k \in IdKeys : OrmGetById(a, k)
    \/ \E a \in Aggs, s \in SlugKeys : OrmGetBySlug(a, s)
    \/ \E a \in Aggs, f \in FilterSpecs \cup {Unset} : SetFilter(a, f)
    \/ \E a \in Aggs, o \in OrmOrderSpecs \cup {Unset} : SetOrder(a, o)
    \/ \E a \in Aggs, s \in {<<0, 2>>, Unset} : SetSlice(a, s)
    \/ \E a \in Aggs, r \in {"r1", None} : SetRelationship(a, r)

SpecOrm == InitOrm /\ [][NextOrm]_vars

\* A store-backed aggregate, constructed with search mode on or off, and its
\* clones: entities added through the session, the filter set and unset,
\* and the two reads that search mode changes.
InitOrmClone == InitOrm

NextOrmClone ==
    \/ \E a \in Aggs, e \in OrmEntities : OrmAdd(a, e)
    \/ \E a \in Aggs, f \in FilterSpecs \cup {Unset} : SetFilter(a, f)
    \/ \E a \in Aggs : OrmClone(a)
    \/ \E a \in Aggs : OrmCount(a)
    \/ \E a \in Aggs : OrmIterator(a)

SpecOrmClone == InitOrmClone /\ [][NextOrmClone]_vars

\* One visitor of either flavor, constructed for the member class, accepted
\* into one specification tree and read.
InitVisitor ==
    /\ cfg = [backend |-> "mem"]
    /\ aggs = <<NewAggregate(None, 1, FALSE)>>
    /\ heap = << <<>> >>
    /\ EmptyWorld

NextVisitor ==
    \/ \E spec \in FilterTrees : Accept("filter", spec)
    \/ \E spec \in OrderTrees : Accept("order", spec)
    \/ VisitNullary
    \/ VisitUnary
    \/ VisitBinary
    \/ Expression

SpecVisitor == InitVisitor /\ [][NextVisitor]_vars

\* One collection over an aggregate of either class: filters and orders
\* assigned to the collection over and over.
InitColl ==
    /\ \E b \in {"mem", "orm"} :
          /\ cfg = [backend |-> b]
          /\ aggs = <<NewAggregate(None, IF b = "mem" THEN 1 ELSE 0, FALSE)>>
          /\ heap = IF b = "mem" THEN << <<>> >> ELSE <<>>
    /\ children = [r \in Relationships |-> <<>>]
    /\ store = {}
    /\ deleted = {}
    /\ made_from = <<Constructed>>
    /\ ret = NoCall
    /\ colls = <<NewCollection(1)>>
    /\ visitor = NoVisitor
    /\ gen = NoGen

NextColl ==
    \/ \E c \in Colls, f \in CollFilterSpecs \cup {Unset} : CollSetFilter(c, f)
    \/ \E c \in Colls, o \in CollOrderSpecs \cup {Unset} : CollSetOrder(c, o)

SpecColl == InitColl /\ [][NextColl]_vars

\* A collection over an aggregate of either class, nested under a relation
\* or not, and its clones: filters and orders assigned to each of them.
InitCollClone ==
    /\ \E b \in {"mem", "orm"} :
          /\ cfg = [backend |-> b]
          /\ aggs = <<NewAggregate(None, IF b = "mem" THEN 1 ELSE 0, FALSE)>>
          /\ heap = IF b = "mem" THEN << <<>> >> ELSE <<>>
    /\ children = [r \in Relationships |-> <<>>]
    /\ store = {}
    /\ deleted = {}
    /\ made_from = <<Constructed>>
    /\ ret = NoCall
    /\ \E rel \in CollRelations \cup {None} :
          colls = <<[NewCollection(1) EXCEPT !.parent = "service", !.relation = rel]>>
    /\ visitor = NoVisitor
    /\ gen = NoGen

CloneFilterSpecs ==
    { Nullary("greater_than", <<"parent", "title">>, 2),
      Binary("and", Nullary("equal_to", <<"name">>, 1), Nullary("greater_than", <<"parent", "title">>, 2)),
      Nullary("equal_to", <<"title">>, 1) }

CloneOrderSpecs ==
    { Binary("conjunction", OrderLeaf("asc", <<"name">>), OrderLeaf("desc", <<"parent", "title">>)),
      OrderLeaf("asc", <<"title">>) }

NextCollClone ==
    \/ \E c \in Colls, f \in CloneFilterSpecs : CollSetFilter(c, f)
    \/ \E c \in Colls, o \in CloneOrderSpecs : CollSetOrder(c, o)
    \/ \E c \in Colls : CollGetFilter(c)
    \/ \E c \in Colls : CollClone(c)

SpecCollClone == InitCollClone /\ [][NextCollClone]_vars

\* One aggregate of either class that holds entities: its filter, order and
\* slice assigned over and over, iterations in between.
RecentSliceKeys == {<<0, 1>>, <<1, 3>>}

InitRecent ==
    /\ \E b \in {"mem", "orm"}, m \in BOOLEAN :
          /\ cfg = [backend |-> b]
          /\ b = "mem" => ~m
          /\ aggs = <<NewAggregate(None, IF b = "mem" THEN 1 ELSE 0, m)>>
          /\ heap = IF b = "mem" THEN << <<>> >> ELSE <<>>
    /\ EmptyWorld

NextRecent ==
    \/ \E a \in Aggs, e \in OrmEntities : MemAdd(a, e)
    \/ \E a \in Aggs, e \in OrmEntities : OrmAdd(a, e)
    \/ \E a \in Aggs, f \in FilterSpecs \cup {Unset} : SetFilter(a, f)
    \/ \E a \in Aggs, o \in OrderSpecs \cup {Unset} : SetOrder(a, o)
    \/ \E a \in Aggs, s \in RecentSliceKeys \cup {Unset} : SetSlice(a, s)
    \/ \E a \in Aggs : MemIterator(a)
    \/ \E a \in Aggs : OrmIterator(a)

SpecRecent == InitRecent /\ [][NextRecent]_vars

\* An in-memory aggregate constructed with any of its three fields set or
\* not, and its clones: entities added while a generator is suspended
\* between two yields.
IterEntities == {"e2", "e4"}

InitIter ==
    /\ cfg = [backend |-> "mem"]
    /\ \E f \in FilterSpecs \cup {Unset}, o \in {<<"desc", "val">>, Unset}, s \in {<<0, 2>>, Unset} :
          aggs = <<[NewAggregate(None, 1, FALSE) EXCEPT !.filter = f, !.order = o, !.slice = s]>>
    /\ heap = << <<>> >>
    /\ EmptyWorld

NextIter ==
    \/ \E a \in Aggs, e \in IterEntities : MemAdd(a, e)
    \/ \E a \in Aggs : MemClone(a)
    \/ \E a \in Aggs : MemIterCall(a)
    \/ MemIterNext

SpecIter == InitIter /\ [][NextIter]_vars

\* One aggregate of either class, scoped and unscoped: entities added and
\* removed, a generator suspended or not, and the three fields assigned in
\* between.
AssignEntities == {"e1", "e2"}

InitAssign == InitShare

NextAssign ==
    \/ \E a \in Aggs, e \in AssignEntities : MemAdd(a, e)
    \/ \E a \in Aggs, e \in AssignEntities : MemRemove(a, e)
    \/ \E a \in Aggs, e \in AssignEntities : OrmAdd(a, e)
    \/ \E a \in Aggs, e \in AssignEntities : OrmRemove(a, e)
    \/ \E a \in Aggs : MemIterCall(a)
    \/ MemIterNext
    \/ \E a \in Aggs, f \in FilterSpecs \cup {Unset} : SetFilter(a, f)
    \/ \E a \in Aggs, o \in {<<"asc", "val">>, Unset} : SetOrder(a, o)
    \/ \E a \in Aggs, s \in {<<0, 2>>, Unset} : SetSlice(a, s)
    \/ \E a \in Aggs, r \in {"r1", None} : SetRelationship(a, r)

SpecAssign == InitAssign /\ [][NextAssign]_vars

\* An in-memory aggregate without a relationship, empty when constructed,
\* and its clones: entities added and removed through any of them, and
\* looked up by ID.
UniqueEntities == {"e1", "e2", "e3", "e4"}

InitUnique ==
    /\ cfg = [backend |-> "mem"]
    /\ aggs = <<NewAggregate(None, 1, FALSE)>>
    /\ heap = << <<>> >>
    /\ EmptyWorld

NextUnique ==
    \/ \E a \in Aggs, e \in UniqueEntities : MemAdd(a, e)
    \/ \E a \in Aggs, e \in UniqueEntities : MemRemove(a, e)
    \/ \E a \in Aggs : MemClone(a)
    \/ \E a \in Aggs, k \in IdKeys : MemGetById(a, k)

SpecUnique == InitUnique /\ [][NextUnique]_vars

\* One collection over an aggregate of either class, constructed with an
\* order or without: members added, and the collection updated from data.
MemberEntities == {"e1", "e2"}
MemberNames == {None, "a"}

InitMembers ==
    /\ \E b \in {"mem", "orm"}, o \in {<<"asc", "val">>, Unset} :
          /\ cfg = [backend |-> b]
          /\ aggs = <<[NewAggregate(None, IF b = "mem" THEN 1 ELSE 0, FALSE) EXCEPT !.order = o]>>
          /\ heap = IF b = "mem" THEN << <<>> >> ELSE <<>>
    /\ children = [r \in Relationships |-> <<>>]
    /\ store = {}
    /\ deleted = {}
    /\ made_from = <<Constructed>>
    /\ ret = NoCall
    /\ colls = <<NewCollection(1)>>
    /\ visitor = NoVisitor
    /\ gen = NoGen

NextMembers ==
    \/ \E c \in Colls, e \in MemberEntities, n \in MemberNames : CollAdd(c, NewMember(e, n))
    \/ \E c \in Colls, data \in DataSets : MemUpdateFromData(c, data)
    \/ \E c \in Colls, data \in DataSets : OrmUpdateFromData(c, data)

SpecMembers == InitMembers /\ [][NextMembers]_vars

\* An aggregate of either class and its clones as cursors: each of the four
\* fields set and unset over and over, no entity held.
InitCursor == InitShare

NextCursor ==
    \/ \E a \in Aggs, f \in FilterSpecs \cup {Unset} : SetFilter(a, f)
    \/ \E a \in Aggs, o \in {<<"asc", "val">>, Unset} : SetOrder(a, o)
    \/ \E a \in Aggs, s \in {<<0, 2>>, Unset} : SetSlice(a, s)
    \/ \E a \in Aggs, r \in {"r1", None} : SetRelationship(a, r)
    \/ \E a \in Aggs : MemClone(a)
    \/ \E a \in Aggs : OrmClone(a)

SpecCursor == InitCursor /\ [][NextCursor]_vars

-----------------------------------------------------------------------------
(* Point lookups of the in-memory aggregate. *)

\* The positions of the list of aggregate a whose entity has value under
\* attr and satisfies the filter of a (every such position without a filter).
MatchingPositions(a, attr, value) ==
    {i \in 1..Len(_get_entities(a)) :
        /\ GetAttr(_get_entities(a)[i], attr) = value
        /\ aggs[a].filter # Unset => IsSatisfiedBy(aggs[a].filter, _get_entities(a)[i])}

LookupAgrees(a, attr, value, out) ==
    LET m == MatchingPositions(a, attr, value)
    IN  /\ Cardinality(m) >= 2 => out = "DuplicateException"
        /\ Cardinality(m) = 0 => out = None
        /\ Cardinality(m) = 1 => \A i \in m : out = _get_entities(a)[i]

\* C1: get_by_id(k) / get_by_slug(s) of an in-memory aggregate decide on the
\* entities of the backing list that have the key and satisfy the current
\* filter, whatever the order and the slice: DuplicateException for two or
\* more, None for none, the entity for exactly one.
C1_LookupByCardinality ==
    /\ (IsMem /\ ret.op = "get_by_id") => LookupAgrees(ret.agg, "id", ret.arg, ret.out)
    /\ (IsMem /\ ret.op = "get_by_slug") => LookupAgrees(ret.agg, "slug", ret.arg, ret.out)

\* A lookup that raised for two matches, with a filter, an order and a slice
\* set under which iteration yields fewer than two entities.
C1_Witness ==
    /\ IsMem
    /\ ret.op = "get_by_id"
    /\ ret.out = "DuplicateException"
    /\ aggs[ret.agg].filter # Unset
    /\ aggs[ret.agg].order # Unset
    /\ aggs[ret.agg].slice # Unset
    /\ Len(iterator(ret.agg)) < 2

-----------------------------------------------------------------------------
(* add of the in-memory aggregate. *)

\* The step is a call of op (every call sets ret; a repeated call that
\* changes nothing is a stuttering step).
Called(op) == ret'.op = op

\* The entities add has to refuse whatever the aggregate holds.
Malformed(e) ==
    \/ EntityTable[e].cls # entity_class
    \/ ~EntityTable[e].hasId
    \/ ~EntityTable[e].hasSlug
    \/ (EntityTable[e].hasId /\ EntityTable[e].id # None /\ EntityTable[e].slug = None)

\* e has the id or the slug of an entity in the list ents.
Collides(ents, e) ==
    \E i \in 1..Len(ents) :
        \/ GetAttr(ents[i], "id") = GetAttr(e, "id")
        \/ GetAttr(ents[i], "slug") = GetAttr(e, "slug")

ListsUnchanged == heap' = heap /\ children' = children

\* The list of aggregate a after the step.
EntitiesAfter(a) == GetEntitiesOf(aggs'[a], heap', children')

\* C2: in-memory add raises ValueError and leaves the backing list as it was
\* for an entity of another class, without id attribute, without slug
\* attribute, or with an id and a None slug.
C2_MalformedRefused ==
    [][(IsMem /\ Called("add") /\ Malformed(ret'.arg))
          => (ret'.out = "ValueError" /\ ListsUnchanged)]_vars

\* The entity with an id and no slug was refused by an aggregate that holds
\* entities.
C2_Witness ==
    /\ IsMem
    /\ ret.op = "add"
    /\ ret.arg = "e6"
    /\ ret.out = "ValueError"
    /\ Len(_get_entities(ret.agg)) = 2

-----------------------------------------------------------------------------
(* count and iterator of the in-memory aggregate. *)

\* The number of entities of the list of a that satisfy the filter of a.
NumSatisfying(a) ==
    Cardinality({i \in 1..Len(_get_entities(a)) :
        aggs[a].filter # Unset => IsSatisfiedBy(aggs[a].filter, _get_entities(a)[i])})

\* count() of aggregate a after the step.
CountAfter(a) ==
    CountOf(aggs'[a].filter, aggs'[a].order, aggs'[a].slice, EntitiesAfter(a))

AddedOk == IsMem /\ Called("add") /\ ret'.out = None

\* C4 as claimed: after a successful in-memory add, count() is one greater
\* than it was before the add.
C4_AddIncrementsCount ==
    [][AddedOk => CountAfter(ret'.agg) = count(ret'.agg) + 1]_vars

\* The new entity is counted: it satisfies the filter (if one is set) and,
\* with slice [start, stop) set, the entities that satisfied the filter
\* before the add number at least start and fewer than stop.
Counted(a, e) ==
    /\ aggs[a].filter # Unset => IsSatisfiedBy(aggs[a].filter, e)
    /\ aggs[a].slice # Unset =>
          (aggs[a].slice[1] <= NumSatisfying(a) /\ NumSatisfying(a) < aggs[a].slice[2])

\* C4 amended: after a successful in-memory add, count() is one greater than
\* before when the entity satisfies the current filter (or none is set) and
\* the slice (if set) has room for one more at its end; otherwise count() is
\* what it was.  The number of held entities is always one greater.
C4_AddIncrementsCountIfCounted ==
    [][AddedOk =>
          /\ Len(EntitiesAfter(ret'.agg)) = Len(_get_entities(ret'.agg)) + 1
          /\ CountAfter(ret'.agg) =
                count(ret'.agg) + (IF Counted(ret'.agg, ret'.arg) THEN 1 ELSE 0)]_vars

\* An add that succeeded and raised count() from 1 to 2 under a filter.
C4_Witness ==
    /\ IsMem
    /\ ret.op = "add"
    /\ ret.out = None
    /\ aggs[ret.agg].filter # Unset
    /\ aggs[ret.agg].slice = Unset
    /\ count(ret.agg) = 2
    /\ Len(_get_entities(ret.agg)) = 3

\* C5 as claimed: count() is the number of entities that satisfy the current
\* filter, whatever the order and the slice.
C5_CountIsFilteredCardinality ==
    (IsMem /\ ret.op = "count") => ret.out = NumSatisfying(ret.agg)

\* C6: with slice [a, b) set, iterating an in-memory aggregate yields the
\* items at positions a .. min(b, N) - 1 (from zero) of the N items the same
\* aggregate yields without a slice, in that order.
C6_SliceOfUnsliced ==
    (IsMem /\ ret.op = "iterator" /\ aggs[ret.agg].slice # Unset) =>
        LET agg == aggs[ret.agg]
            unsliced == Iterate(agg.filter, agg.order, Unset, _get_entities(ret.agg))
            n == Len(unsliced)
            a == agg.slice[1]
            b == agg.slice[2]
        IN  /\ Len(ret.out) = Max(0, Min(b, n) - a)
            /\ \A i \in 1..Len(ret.out) : ret.out[i] = unsliced[a + i]

\* An iteration under slice [2, 5) that yielded the one item at position 2
\* of three ordered items, which is not the item at position 2 of the list.
C6_Witness ==
    /\ IsMem
    /\ ret.op = "iterator"
    /\ aggs[ret.agg].slice = <<2, 5>>
    /\ aggs[ret.agg].order # Unset
    /\ Len(ret.out) = 1
    /\ ret.out[1] # _get_entities(ret.agg)[3]

-----------------------------------------------------------------------------
(* The order of the steps of the in-memory iterator. *)

\* f is exactly the entities of ents that satisfy spec, in the order of ents.
IsFilterOf(f, spec, ents) ==
    \E pos \in [1..Len(f) -> 1..Len(ents)] :
        /\ \A i, j \in 1..Len(f) : i < j => pos[i] < pos[j]
        /\ \A i \in 1..Len(f) : f[i] = ents[pos[i]]
        /\ \A k \in 1..Len(ents) :
              IsSatisfiedBy(spec, ents[k]) <=> (\E i \in 1..Len(f) : pos[i] = k)

\* s is f rearranged so that no item has to come after a later one, items
\* that compare equal keeping the order they have in f.
IsStableSortOf(s, spec, f) ==
    /\ Len(s) = Len(f)
    /\ \E pos \in [1..Len(s) -> 1..Len(f)] :
          /\ \A i, j \in 1..Len(s) : i # j => pos[i] # pos[j]
          /\ \A i \in 1..Len(s) : s[i] = f[pos[i]]
          /\ \A i, j \in 1..Len(s) : i < j =>
                /\ ~ComesAfter(spec, s[i], s[j])
                /\ ~ComesAfter(spec, s[j], s[i]) => pos[i] < pos[j]

\* out is the part [key[1], key[2]) of s.
IsSliceOf(out, key, s) ==
    /\ Len(out) = Max(0, Min(key[2], Len(s)) - key[1])
    /\ \A i \in 1..Len(out) : out[i] = s[key[1] + i]

\* The lists of at most n entities out of the set es.
ListsOver(es, n) == UNION {[1..k -> es] : k \in 0..n}

\* C7: what the in-memory iterator yields is the slice of the sorted list of
\* the filtered list of all entities, a step being left out when its field is
\* None: the filter sees the full list, the order the filtered list, the
\* slice the filtered and sorted list.
C7_FilterOrderSlice ==
    (IsMem /\ ret.op = "iterator") =>
        LET agg == aggs[ret.agg]
            ents == _get_entities(ret.agg)
        IN  \E f \in ListsOver(Range(ents), Len(ents)) :
              /\ IF agg.filter = Unset THEN f = ents ELSE IsFilterOf(f, agg.filter, ents)
              /\ \E s \in [1..Len(f) -> Range(f)] :
                    /\ IF agg.order = Unset THEN s = f ELSE IsStableSortOf(s, agg.order, f)
                    /\ IF agg.slice = Unset THEN ret.out = s
                       ELSE IsSliceOf(ret.out, agg.slice, s)

\* An iteration with the three fields set where the filter dropped an entity
\* and the order rearranged the two that were left, both within the slice.
C7_Witness ==
    /\ IsMem
    /\ ret.op = "iterator"
    /\ aggs[ret.agg].filter # Unset
    /\ aggs[ret.agg].order # Unset
    /\ aggs[ret.agg].slice = <<0, 2>>
    /\ LET ents == _get_entities(ret.agg)
           f == EvalFilter(aggs[ret.agg].filter, ents)
       IN  /\ Len(f) < Len(ents)
           /\ Len(ret.out) = 2
           /\ ret.out # f

-----------------------------------------------------------------------------
(* Clones and relationships. *)

\* b was made by clone() from an original that had no relationship then.
ClonedUnscoped(b) == made_from[b].of # 0 /\ ~made_from[b].scoped

\* What an in-memory aggregate shows of the entities: iteration, count and
\* the point lookups.
MemView(a) ==
    << iterator(a), count(a),
       [k \in IdKeys |-> get_by_id(a, k)],
       [k \in SlugKeys |-> get_by_slug(a, k)] >>

\* C8: an in-memory aggregate without a relationship and a clone made from it
\* use one list: while neither has a relationship, both hold the same
\* entities and show the same count, iteration and lookups under equal
\* fields, whatever was added or removed through either since the clone was
\* made.
C8_ClonesShareList ==
    IsMem =>
        \A b \in Aggs :
            (/\ ClonedUnscoped(b)
             /\ aggs[b].relationship = None
             /\ aggs[made_from[b].of].relationship = None)
            => LET a == made_from[b].of
               IN  /\ _get_entities(a) = _get_entities(b)
                   /\ (aggs[a].filter = aggs[b].filter
                          /\ aggs[a].order = aggs[b].order
                          /\ aggs[a].slice = aggs[b].slice) => MemView(a) = MemView(b)

\* An entity added through a clone is held by its original, in a run that
\* also put an entity among the children of r1 through a scoped aggregate.
C8_Witness ==
    /\ IsMem
    /\ ret.op = "add"
    /\ ret.out = None
    /\ ClonedUnscoped(ret.agg)
    /\ aggs[ret.agg].relationship = None
    /\ aggs[made_from[ret.agg].of].relationship = None
    /\ count(made_from[ret.agg].of) = 1
    /\ children["r1"] # <<>>

\* What an aggregate of the current class shows of the entities.
View(a) ==
    IF IsMem THEN MemView(a)
    ELSE << OrmCountOf(aggs[a], store, deleted, children),
            FilteredQuery(aggs[a], store, children) >>

Assigned ==
    Called("set_filter") \/ Called("set_order") \/ Called("set_slice")
        \/ Called("set_relationship")

\* C10: clone() returns a new aggregate with the filter, order, slice and
\* relationship the original has at the call and leaves the original as it
\* is; afterwards an assignment to one of the four fields of an aggregate
\* sets that field of that aggregate and changes no other aggregate, clone or
\* original.
C10_CloneIsIndependentCursor ==
    [][/\ Called("clone") =>
            LET orig == aggs[ret'.agg]
                clone == aggs'[ret'.out]
            IN  /\ ret'.out \notin Aggs
                /\ clone.filter = orig.filter
                /\ clone.order = orig.order
                /\ clone.slice = orig.slice
                /\ clone.relationship = orig.relationship
                /\ \A b \in Aggs : aggs'[b] = aggs[b]
       /\ Assigned =>
            /\ \A b \in Aggs \ {ret'.agg} : aggs'[b] = aggs[b]
            /\ Called("set_filter") => aggs'[ret'.agg].filter = ret'.arg
            /\ Called("set_order") => aggs'[ret'.agg].order = ret'.arg
            /\ Called("set_slice") => aggs'[ret'.agg].slice = ret'.arg
            /\ Called("set_relationship") => aggs'[ret'.agg].relationship = ret'.arg]_vars

\* A clone that carried the four fields over, then had its filter taken
\* away while the original kept its own.
C10_Witness ==
    /\ Len(aggs) = 2
    /\ ret.op = "set_filter"
    /\ ret.agg = 2
    /\ made_from[2].of = 1
    /\ aggs[2].filter = Unset
    /\ aggs[1].filter # Unset
    /\ aggs[1].order # Unset /\ aggs[2].order = aggs[1].order
    /\ aggs[1].slice # Unset /\ aggs[2].slice = aggs[1].slice
    /\ aggs[1].relationship # None /\ aggs[2].relationship = aggs[1].relationship

-----------------------------------------------------------------------------
(* C11 *)

\* What count() would return and what iterator() could yield, now.
CountNow(a) == OrmCountOf(aggs[a], store, deleted, children)
YieldsNow(a) == OrmIterate(aggs[a], Flushed(store, deleted), children)

\* C11: immediately after clone() on a store-backed aggregate, count() and
\* iterator() give the same on the clone as on the original, also when the
\* original was constructed with search mode active.
C11_CloneReadsAsOriginal ==
    (IsOrm /\ ret.op = "clone") =>
        /\ CountNow(ret.out) = CountNow(ret.agg)
        /\ YieldsNow(ret.out) = YieldsNow(ret.agg)

-----------------------------------------------------------------------------
(* C12 *)

OrmReads == {"count", "iterator", "get_by_id", "get_by_slug"}

\* C12: a read of a store-backed aggregate that builds a query while the
\* session holds a write not yet flushed has flushed the session first.
C12_ReadsFlushPendingWrites ==
    [][(IsOrm /\ ret'.op \in OrmReads /\ deleted # {} /\ ret'.out.query # <<>>)
            => ret'.out.flushes > 0]_vars

-----------------------------------------------------------------------------
(* C13 *)

\* The place of a call in the construction of the data query.
Rank(step) ==
    CASE step[1] = "query" -> 1
      [] step[1] = "filter" /\ step[2][1] = "child_of" -> 2
      [] step[1] = "filter" /\ step[2][1] # "child_of" -> 3
      [] step[1] = "outerjoin" -> 4
      [] step[1] = "order_by" -> 5
      [] step[1] = "slice" -> 6

\* The calls a field accounts for.
StepsWanted(agg) ==
    {<<"query">>}
    \cup (IF agg.relationship # None THEN {<<"filter", <<"child_of", agg.relationship>> >>} ELSE {})
    \cup (IF agg.filter # Unset THEN {<<"filter", agg.filter>>} ELSE {})
    \cup (IF agg.order # Unset
          THEN {<<"order_by", agg.order>>} \cup {<<"outerjoin", j>> : j \in Range(GetJoins(agg.order))}
          ELSE {})
    \cup (IF agg.slice # Unset THEN {<<"slice", agg.slice[1], agg.slice[2]>>} ELSE {})

\* C13: the data query of a store-backed aggregate is built from the base
\* query, the relationship's criterion, the filter, the joins, the order-by
\* and the slice, in this order, each exactly when its field is set.
C13_DataQueryBuiltInOrder ==
    (IsOrm /\ ret.op = "iterator" /\ ret.out.query # <<>>) =>
        LET q == ret.out.query
        IN  /\ Range(q) = StepsWanted(aggs[ret.agg])
            /\ Len(q) = Cardinality(StepsWanted(aggs[ret.agg]))
            /\ \A i, j \in 1..Len(q) : i < j => Rank(q[i]) < Rank(q[j])

C13_Witness ==
    /\ IsOrm /\ ret.op = "iterator"
    /\ aggs[ret.agg].relationship # None
    /\ aggs[ret.agg].filter # Unset
    /\ aggs[ret.agg].order # Unset /\ GetJoins(aggs[ret.agg].order) # <<>>
    /\ aggs[ret.agg].slice # Unset
    /\ Len(ret.out.query) = 6
    /\ ret.out.val # <<>>

-----------------------------------------------------------------------------
(* C14 *)

\* C14: in search mode with no filter set, count() returns 0 and iterator()
\* yields nothing, and no query is run; with a filter set or search mode off
\* both run a query.
C14_SearchModeReadsEmpty ==
    (IsOrm /\ ret.op \in {"count", "iterator"}) =>
        IF aggs[ret.agg].search_mode /\ aggs[ret.agg].filter = Unset
        THEN /\ ret.out.query = <<>>
             /\ ret.out.val = (IF ret.op = "count" THEN 0 ELSE <<>>)
        ELSE ret.out.query # <<>>

-----------------------------------------------------------------------------
(* C15 *)

\* The entities of the store a lookup is about: those the aggregate's
\* relationship and filter let through and whose attribute has the value.
Found(agg, attr, value) ==
    {e \in store :
        /\ agg.relationship # None => e \in Range(children[agg.relationship])
        /\ agg.filter # Unset => IsSatisfiedBy(agg.filter, e)
        /\ GetAttr(e, attr) = value}

LookedUp == IF ret.op = "get_by_id" THEN "id" ELSE "slug"

\* C15: store-backed get_by_id / get_by_slug return None when nothing
\* matches, the entity when exactly one matches, and raise
\* DuplicateException when several match; the store's own exceptions do not
\* reach the caller.
C15_OrmLookupByCardinality ==
    (IsOrm /\ ret.op \in {"get_by_id", "get_by_slug"}) =>
        LET found == Found(aggs[ret.agg], LookedUp, ret.arg)
        IN  /\ Cardinality(found) = 0 => ret.out.val = None
            /\ Cardinality(found) = 1 => ret.out.val \in found
            /\ Cardinality(found) > 1 => ret.out.val = "DuplicateException"
            /\ ret.out.val \notin {"NoResultFound", "MultipleResultsFound"}

\* get_by_id has met two stored entities with the ID asked for.
C15_Witness ==
    /\ IsOrm /\ ret.op = "get_by_id"
    /\ ret.out.val = "DuplicateException"
    /\ aggs[ret.agg].filter = Unset

-----------------------------------------------------------------------------
(* C16 *)

\* C16: the traversal of a specification tree by a fresh resource-to-entity
\* visitor never pops from an empty stack, and when it has ended the stack
\* holds exactly one value, which is the visitor's expression.
C16_OneValueAfterTraversal ==
    /\ visitor.state = "failed" => visitor.error # "IndexError"
    /\ visitor.state = "done" => Len(visitor.stack) = 1
    /\ visitor.state = "read" => Len(visitor.stack) = 1 /\ ret.out = visitor.stack[1]

C16_Witness ==
    /\ visitor.state = "read"
    /\ KindOf(visitor.spec) = "binary"
    /\ KindOf(visitor.spec[2]) = "unary"
    /\ KindOf(visitor.spec[3]) = "unary"

-----------------------------------------------------------------------------
(* C17 *)

RECURSIVE SameShape(_, _)
SameShape(a, b) ==
    /\ a[1] = b[1]
    /\ Len(a) = Len(b)
    /\ CASE KindOf(a) = "nullary" -> Len(a) = 3 => a[3] = b[3]
         [] KindOf(a) = "unary" -> SameShape(a[2], b[2])
         [] KindOf(a) = "binary" -> SameShape(a[2], b[2]) /\ SameShape(a[3], b[3])

\* C17: the translation of a specification tree has, node for node, the
\* class of the input node, its children at the same sides and its
\* comparison value; the leaves' attribute names alone may differ.
C17_TranslationKeepsShape ==
    visitor.state = "read" => SameShape(visitor.spec, ret.out)

C17_Witness ==
    /\ visitor.state = "read"
    /\ visitor.flavor = "filter"
    /\ KindOf(visitor.spec) = "binary"
    /\ KindOf(visitor.spec[2]) = "nullary"
    /\ KindOf(visitor.spec[3]) = "unary"
    /\ ret.out # visitor.spec

-----------------------------------------------------------------------------
(* C18 *)

\* The resource class current at the i-th token of a path.
RECURSIVE CurrentClass(_, _, _)
CurrentClass(rc_class, tokens, i) ==
    IF i = 1 THEN rc_class
    ELSE LET c == CurrentClass(rc_class, tokens, i - 1)
         IN  IF /\ tokens[i - 1] \in DOMAIN ResourceAttrs[c]
                /\ ResourceAttrs[c][tokens[i - 1]].kind \in {"MEMBER", "COLLECTION"}
             THEN get_member_class(ResourceAttrs[c][tokens[i - 1]].value_type)
             ELSE c

HasUnknownToken(rc_class, tokens) ==
    \E i \in 1..Len(tokens) :
        tokens[i] \notin DOMAIN ResourceAttrs[CurrentClass(rc_class, tokens, i)]

AtLeaf == visitor.state = "visiting" /\ KindOf(Head(visitor.todo)) = "nullary"

\* C18: the visit of a leaf whose path has a token that the resource class
\* current at that token does not declare fails with KeyError and pushes
\* nothing.
C18_UnknownTokenFails ==
    [][(AtLeaf /\ HasUnknownToken(visitor.rc_class, Head(visitor.todo)[2]))
            => /\ visitor'.state = "failed"
               /\ visitor'.error = "KeyError"
               /\ visitor'.stack = visitor.stack]_vars

C18_Witness ==
    /\ visitor.state = "failed"
    /\ visitor.error = "KeyError"
    /\ visitor.stack # <<>>
    /\ Head(visitor.todo)[2] = <<"parent", "name">>

-----------------------------------------------------------------------------
(* C19 *)

TerminalFollowed(rc_class, tokens) ==
    \E i \in 1..(Len(tokens) - 1) :
        /\ tokens[i] \in DOMAIN ResourceAttrs[CurrentClass(rc_class, tokens, i)]
        /\ ResourceAttrs[CurrentClass(rc_class, tokens, i)][tokens[i]].kind = "TERMINAL"

\* C19: the visit of a leaf whose path has a token of terminal kind followed
\* by further tokens fails.
C19_TerminalIsLast ==
    [][(AtLeaf /\ TerminalFollowed(visitor.rc_class, Head(visitor.todo)[2]))
            => visitor'.state = "failed"]_vars

-----------------------------------------------------------------------------
(* C20 *)

Leaves(spec) == {n \in Range(PostOrder(spec)) : KindOf(n) = "nullary"}

\* A specification with a leaf that does not resolve for the member class.
FailsTranslation(spec) ==
    /\ spec # Unset
    /\ \E n \in Leaves(spec) : HasUnknownToken("MemberA", n[2])

\* C20: an assignment of a filter or an order to a collection that fails in
\* translation raises from the assignment and changes nothing: not the
\* aggregate, not the collection's own specifications, not the store.
C20_FailedAssignmentChangesNothing ==
    [][(ret'.op \in {"coll_set_filter", "coll_set_order"} /\ FailsTranslation(ret'.arg))
            => /\ ret'.out = "KeyError"
               /\ aggs' = aggs
               /\ colls' = colls
               /\ <<heap, children, store, deleted>>' = <<heap, children, store, deleted>>]_vars

\* A filter that does not translate has been refused by a collection that
\* had a filter and an order assigned before.
C20_Witness ==
    /\ ret.op = "coll_set_filter"
    /\ ret.out = "KeyError"
    /\ KindOf(ret.arg) = "binary"
    /\ colls[ret.agg].filter_spec # Unset
    /\ colls[ret.agg].order_spec # Unset
    /\ aggs[colls[ret.agg].aggregate].filter # Unset

-----------------------------------------------------------------------------
(* C21 *)

\* The entity attribute tokens of a path that resolves for the class.
EntityPath(rc_class, tokens) ==
    [i \in 1..Len(tokens) |->
        ResourceAttrs[CurrentClass(rc_class, tokens, i)][tokens[i]].entity_name]

\* The tree with every leaf's path replaced by its entity path.
RECURSIVE EntityRelative(_, _)
EntityRelative(rc_class, spec) ==
    CASE KindOf(spec) = "nullary" -> [spec EXCEPT ![2] = EntityPath(rc_class, spec[2])]
      [] KindOf(spec) = "unary" -> <<spec[1], EntityRelative(rc_class, spec[2])>>
      [] KindOf(spec) = "binary" ->
            <<spec[1], EntityRelative(rc_class, spec[2]), EntityRelative(rc_class, spec[3])>>

\* What the aggregate has to hold for a specification kept by a collection.
TranslationOf(spec) == IF spec = Unset THEN Unset ELSE EntityRelative("MemberA", spec)

\* The names entities give their attributes.
EntityNames ==
    UNION {{ResourceAttrs[c][n].entity_name : n \in DOMAIN ResourceAttrs[c]} :
           c \in DOMAIN ResourceAttrs}

OnlyEntityNames(spec) ==
    spec # Unset => \A n \in Leaves(spec) : Range(n[2]) \subseteq EntityNames

\* C21: the aggregate under a collection (or under a clone of it) holds the
\* entity-relative translation of the filter and of the order the collection
\* keeps, the collection keeps the specification of its last successful
\* assignment as it was assigned, and no attribute name of a resource is in
\* the aggregate's filter or order.
C21_AggregateHoldsTranslation ==
    /\ \A c \in Colls :
          LET agg == aggs[colls[c].aggregate]
          IN  /\ agg.filter = TranslationOf(colls[c].filter_spec)
              /\ agg.order = TranslationOf(colls[c].order_spec)
              /\ OnlyEntityNames(agg.filter)
              /\ OnlyEntityNames(agg.order)
    /\ (ret.op = "coll_set_filter" /\ ret.out = None) => colls[ret.agg].filter_spec = ret.arg
    /\ (ret.op = "coll_set_order" /\ ret.out = None) => colls[ret.agg].order_spec = ret.arg

\* A clone was given another filter than the collection it was made from,
\* which had a filter and an order then; both aggregates hold a filter.
C21_Witness ==
    /\ ret.op = "coll_set_filter"
    /\ ret.out = None
    /\ ret.agg = 2
    /\ colls[1].filter_spec # Unset
    /\ colls[2].filter_spec # colls[1].filter_spec
    /\ colls[2].order_spec # Unset
    /\ colls[2].order_spec = colls[1].order_spec
    /\ aggs[colls[2].aggregate].filter # aggs[colls[1].aggregate].filter
    /\ aggs[colls[2].aggregate].filter # colls[2].filter_spec

-----------------------------------------------------------------------------
(* C22 *)

-----------------------------------------------------------------------------
(* C23 *)

\* The steps of an in-memory iteration, each made when its field is set.
EvalFilterIfSet(a) ==
    IF aggs[a].filter = Unset THEN _get_entities(a)
    ELSE SelectSeq(_get_entities(a), LAMBDA e : IsSatisfiedBy(aggs[a].filter, e))
EvalOrderIfSet(a, ents) ==
    IF aggs[a].order = Unset THEN ents ELSE EvalOrder(aggs[a].order, ents)
ApplySliceIfSet(a, ents) ==
    IF aggs[a].slice = Unset THEN ents ELSE ApplySlice(ents, aggs[a].slice)

\* The field of aggregate b after a step: the value assigned by the step if
\* the step assigns the field of b, else the value it had.
Follows(b, op, before, after) ==
    after = IF ret'.op = op /\ ret'.agg = b THEN ret'.arg ELSE before

\* What the store may yield for the three fields and the relationship of agg.
RowsSelected(agg, st, ch) ==
    LET rows == {e \in st :
                    /\ agg.relationship # None => e \in Range(ch[agg.relationship])
                    /\ agg.filter # Unset => IsSatisfiedBy(agg.filter, e)}
    IN  {IF agg.slice = Unset THEN f ELSE ApplySlice(f, agg.slice) :
         f \in {g \in [1..Cardinality(rows) -> rows] :
                  /\ \A i, j \in 1..Cardinality(rows) : i # j => g[i] # g[j]
                  /\ agg.order # Unset =>
                        \A i, j \in 1..Cardinality(rows) :
                            i < j => ~ComesAfter(agg.order, g[i], g[j])}}

\* C23: every field of an aggregate holds the value assigned to it last
\* (a step changes the filter, the order or the slice only by assigning
\* it), and an iteration yields what these values select: in memory the
\* slice of the sorted filtered list, store-backed (when a query is run) the
\* rows of the query built from them.  An iteration that follows an
\* assignment at once is made with the value just assigned.
C23_IterationUsesLastAssigned ==
    [][/\ \A b \in Aggs :
             /\ Follows(b, "set_filter", aggs[b].filter, aggs'[b].filter)
             /\ Follows(b, "set_order", aggs[b].order, aggs'[b].order)
             /\ Follows(b, "set_slice", aggs[b].slice, aggs'[b].slice)
       /\ (IsMem /\ ret'.op = "iterator") =>
             LET a == ret'.agg
             IN  /\ ret'.out = ApplySliceIfSet(a, EvalOrderIfSet(a, EvalFilterIfSet(a)))
                 /\ (ret.op = "set_filter" /\ ret.arg # Unset) =>
                        Range(ret'.out) \subseteq
                            {e \in Range(_get_entities(a)) : IsSatisfiedBy(ret.arg, e)}
                 /\ (ret.op = "set_filter" /\ ret.arg = Unset /\ aggs[a].slice = Unset) =>
                        Range(ret'.out) = Range(_get_entities(a))
                 /\ (ret.op = "set_slice" /\ ret.arg # Unset) =>
                        Len(ret'.out) <= ret.arg[2] - ret.arg[1]
       /\ (IsOrm /\ ret'.op = "iterator" /\ ret'.out.query # <<>>) =>
             LET a == ret'.agg
             IN  /\ ret'.out.val \in RowsSelected(aggs[a], store', children)
                 /\ (ret.op = "set_filter" /\ ret.arg # Unset) =>
                        Range(ret'.out.val) \subseteq {e \in store' : IsSatisfiedBy(ret.arg, e)}
                 /\ (ret.op = "set_slice" /\ ret.arg # Unset) =>
                        Len(ret'.out.val) <= ret.arg[2] - ret.arg[1]]_vars

\* An iteration under an order and a slice, no filter set, that yields one
\* of the two entities held: the last of them in the order.
C23_Witness ==
    /\ ret.op = "iterator"
    /\ aggs[ret.agg].filter = Unset
    /\ aggs[ret.agg].order # Unset
    /\ aggs[ret.agg].slice = <<1, 3>>
    /\ IF IsMem THEN ret.out = <<"e1">> /\ _get_entities(ret.agg) = <<"e1", "e2">>
       ELSE ret.out.val = <<"e1">> /\ store = {"e1", "e2"}

-----------------------------------------------------------------------------
(* C24 *)

\* C24: the visit of a leaf whose path resolves pushes a leaf whose name has
\* as many tokens as the path; its i-th token is the entity name of the
\* attribute that the i-th token of the path names on the class current
\* there: the visitor's class for the first token, afterwards the member
\* class an attribute of member or collection kind leads to, and the same
\* class after a terminal attribute.
C24_PathTranslatedTokenByToken ==
    [][(AtLeaf /\ ~HasUnknownToken(visitor.rc_class, Head(visitor.todo)[2])) =>
          LET tokens == Head(visitor.todo)[2]
          IN  /\ visitor'.state # "failed"
              /\ Len(visitor'.stack) = Len(visitor.stack) + 1
              /\ LET out == Top(visitor'.stack)[2]
                 IN  /\ Len(out) = Len(tokens)
                     /\ \A i \in 1..Len(tokens) :
                           LET cls == CurrentClass(visitor.rc_class, tokens, i)
                           IN  /\ out[i] = ResourceAttrs[cls][tokens[i]].entity_name
                               /\ i < Len(tokens) =>
                                     CurrentClass(visitor.rc_class, tokens, i + 1) =
                                        IF ResourceAttrs[cls][tokens[i]].kind \in {"MEMBER", "COLLECTION"}
                                        THEN get_member_class(ResourceAttrs[cls][tokens[i]].value_type)
                                        ELSE cls]_vars

\* A path through an attribute of collection kind has been translated after
\* a path through one of member kind.
C24_Witness ==
    /\ visitor.state \in {"visiting", "done"}
    /\ Len(visitor.stack) = 2
    /\ visitor.stack[1][2] = <<"ent_parent", "ent_title">>
    /\ visitor.stack[2][2] = <<"ent_items", "id">>

-----------------------------------------------------------------------------
(* C28 *)

\* The yields a suspended generator has left if nothing else happens.
YieldsLeft(g, hp, ch) ==
    IF g.state = "running" THEN Len(LoopList(g, hp, ch)) - g.pos ELSE 0

\* C28: an iteration of an in-memory aggregate is finite whatever is added
\* between two yields: an add through the aggregate or through a clone that
\* shares its list does not add to the yields a suspended generator has
\* left, under every combination of filter, order and slice.
C28_AddDoesNotProlongIteration ==
    [][(gen.state = "running" /\ ret'.op = "add")
            => YieldsLeft(gen', heap', children') <= YieldsLeft(gen, heap, children)]_vars

-----------------------------------------------------------------------------
(* C25, C26, C27: the members of a collection.                            *)

\* The entities a collection holds: the list of its in-memory aggregate, or
\* what the session of its store-backed aggregate holds once flushed.
HeldBy(c, hp, ch, st, del) ==
    LET agg == aggs[colls[c].aggregate]
    IN  IF IsMem THEN Range(GetEntitiesOf(agg, hp, ch))
        ELSE IF agg.relationship = None THEN Flushed(st, del)
        ELSE Range(ch[agg.relationship])

HeldBefore(c) == HeldBy(c, heap, children, store, deleted)
HeldAfter(c) == HeldBy(c, heap', children', store', deleted')

\* The IDs the elements of an update carry, and the entities made of its
\* elements without an ID.
DataIds(data) == {data[i].id : i \in 1..Len(data)}
DataEnts(data) == {data[i].ent : i \in 1..Len(data)}

\* C25: after an update that completed without an exception, no entity
\* that the collection held before and whose ID is not among the IDs of
\* the data is held any more (an entity the update itself makes of an
\* element without an ID is left out of the obligation).
C25_UpdateRemovesTheMissing ==
    [][(ret'.op = "update_from_data" /\ ret'.out = None)
            => \A e \in HeldBefore(ret'.agg) :
                  (GetAttr(e, "id") \notin DataIds(ret'.arg) /\ e \notin DataEnts(ret'.arg))
                      => e \notin HeldAfter(ret'.agg)]_vars

\* An update holds an element that is no link and carries an ID none of the
\* given entities has.
HasUnknownId(data, ents) ==
    \E i \in 1..Len(data) :
        /\ ~data[i].link
        /\ data[i].id # None
        /\ data[i].id \notin {GetAttr(e, "id") : e \in ents}

\* C26: an update whose data hold a non-link element with an ID no member
\* has raises ValueError and leaves the collection holding exactly the
\* entities it held before.
C26_UnknownIdRaisesBeforeAnyChange ==
    [][(ret'.op = "update_from_data" /\ HasUnknownId(ret'.arg, HeldBefore(ret'.agg)))
            => /\ ret'.out = "ValueError"
               /\ HeldAfter(ret'.agg) = HeldBefore(ret'.agg)
               /\ IsMem => (heap' = heap /\ children' = children)]_vars

\* An update of two elements, the second with an unknown ID, has raised
\* ValueError on a collection holding a member the data do not name: the
\* member is still there.
C26_Witness ==
    /\ ret.op = "update_from_data"
    /\ ret.out = "ValueError"
    /\ Len(ret.arg) = 2
    /\ ret.arg[1].id = "i1"
    /\ ret.arg[2] = [link |-> FALSE, id |-> "i3", ent |-> None]
    /\ {"e1", "e2"} \subseteq HeldBy(ret.agg, heap, children, store, deleted)

\* C27: an add of a member whose name is the slug of an entity the
\* collection holds raises ValueError, leaves the held entities alone and
\* leaves the member without a parent.
C27_AddRaisesOnSameName ==
    [][(ret'.op = "coll_add"
            /\ \E e \in HeldBefore(ret'.agg) : GetAttr(e, "slug") = MemberName(ret'.arg))
            => /\ ret'.out = Outcome("ValueError", None)
               /\ HeldAfter(ret'.agg) = HeldBefore(ret'.agg)]_vars

-----------------------------------------------------------------------------
(* C29: what an assignment of filter, order or slice touches.             *)

\* The aggregates as they are with the one field of aggregate a taken from
\* the aggregates afterwards.
OnlyFieldChanged(a) ==
    \/ Called("set_filter") /\ aggs' = [aggs EXCEPT ![a].filter = aggs'[a].filter]
    \/ Called("set_order") /\ aggs' = [aggs EXCEPT ![a].order = aggs'[a].order]
    \/ Called("set_slice") /\ aggs' = [aggs EXCEPT ![a].slice = aggs'[a].slice]

\* C29: an assignment of filter, order or slice changes that one field of
\* the aggregate and nothing else: the other fields and the relationship,
\* the lists, the session (nothing flushed, nothing pending lost) and a
\* suspended generator are as before, and the call returns nothing (no
\* sequence, no query).
C29_AssignmentTouchesOneField ==
    [][(Called("set_filter") \/ Called("set_order") \/ Called("set_slice"))
            => /\ OnlyFieldChanged(ret'.agg)
               /\ heap' = heap
               /\ children' = children
               /\ store' = store
               /\ deleted' = deleted
               /\ gen' = gen
               /\ ret'.out = None]_vars

\* A slice has been assigned to a store-backed aggregate that has a filter
\* and an order while a removal is pending in the session: it is pending
\* still.
C29_Witness ==
    /\ IsOrm
    /\ ret.op = "set_slice"
    /\ ret.arg = <<0, 2>>
    /\ aggs[ret.agg].filter # Unset
    /\ aggs[ret.agg].order # Unset
    /\ deleted # {}
    /\ deleted \subseteq store

-----------------------------------------------------------------------------
(* C30: the IDs in the list of an in-memory aggregate.                    *)

\* No two places of a list hold entities with the same ID other than None.
IdsUnique(ents) ==
    \A i, j \in 1..Len(ents) :
        (i # j /\ GetAttr(ents[i], "id") = GetAttr(ents[j], "id"))
            => GetAttr(ents[i], "id") = None

\* C30 as stated: no list holds two entities with the same non-None ID, and
\* no get_by_id raises DuplicateException.
C30_LookupNeverDuplicate ==
    /\ \A l \in 1..Len(heap) : IdsUnique(heap[l])
    /\ ret.op = "get_by_id" => ret.out # "DuplicateException"

\* C30: no list holds two entities with the same non-None ID, and no
\* get_by_id for a key other than None raises DuplicateException.
C30_LookupOfIdNeverDuplicate ==
    /\ \A l \in 1..Len(heap) : IdsUnique(heap[l])
    /\ (ret.op = "get_by_id" /\ ret.arg # None) => ret.out # "DuplicateException"

\* The aggregate holds e2, added through it; a clone of it has just refused
\* e3, which has the ID of e2.
C30_Witness ==
    /\ Len(aggs) >= 2
    /\ made_from[2].of = 1
    /\ ret.op = "add"
    /\ ret.agg = 2
    /\ ret.arg = "e3"
    /\ ret.out = "ValueError"
    /\ "e2" \in Range(_get_entities(1))
    /\ "e1" \notin Range(_get_entities(1))

=============================================================================
